---- MODULE Spec2Model ----
(***************************************************************************)
(* Claim decision pipeline of 04-Shap-Transform: the synchronous           *)
(* SimpleLangGraphAgent (demo_lightweight.py), the graph-executed          *)
(* ClaimProcessingAgent (agent.py), the endpoints of api_server.py, and   *)
(* the classifier and explainers (MockClassifier, QwenClaimClassifier) on  *)
(* their own.                                                              *)
(*                                                                         *)
(* Units.  Probabilities, confidences, thresholds and keyword weights are  *)
(* integers in percent points (0.7 is 70); money is in cents.  Texts are   *)
(* strings; the glyphs of the source that are not ASCII are written        *)
(* "[OK]" (check mark), "[!]" (warning sign) and "*" (bullet).             *)
(***************************************************************************)
EXTENDS Integers, Sequences, FiniteSets, TLC

VARIABLES
    confidence_threshold, \* the agents' configured threshold
    channel_alias,        \* does the graph hand a node the channel's own list
    call,                 \* the process_claim call that is running or has returned
    parity,               \* the two agents run on one input
    engine,               \* the endpoints: the classification engine, text -> outcome
    batch,                \* the batch_process_claims request being handled
    use_shap,             \* the graph agent's configured explanation strategy
    mock,                 \* MockClassifier: the text given to it and what its runs returned
    sweep,                \* one claim run under a lower and a higher threshold
    api,                  \* the process_claim request of the API being handled
    pool,                 \* two process_claim calls on one agent, interleaved
    pii                   \* the call of the PII detector being made

vars == <<confidence_threshold, channel_alias, call, parity, engine, batch,
          use_shap, mock, sweep, api, pool, pii>>

(***************************************************************************)
(* Python values and string operations.                                    *)
(***************************************************************************)

\* None, and a str, as values of an Optional[str] field.
PyNone == [py |-> "NoneType"]
PyStr(s) == [py |-> "str", v |-> s]

\* str(v) of an Optional[str], as an f-string renders it.
Str(v) == IF v.py = "NoneType" THEN "None" ELSE v.v

\* dict.get(key, default)
Get(d, key, default) == IF key \in DOMAIN d THEN d[key] ELSE default

Max(a, b) == IF a >= b THEN a ELSE b
Min(a, b) == IF a <= b THEN a ELSE b
Abs(a) == IF a < 0 THEN -a ELSE a

Char(s, i) == SubSeq(s, i, i)

Whitespace == {" ", "\n", "\t", "\r", "\f"}

UpperCase == "ABCDEFGHIJKLMNOPQRSTUVWXYZ"
LowerCase == "abcdefghijklmnopqrstuvwxyz"

LowerChar(c) ==
    IF \E j \in 1..Len(UpperCase) : Char(UpperCase, j) = c
    THEN Char(LowerCase, CHOOSE j \in 1..Len(UpperCase) : Char(UpperCase, j) = c)
    ELSE c

RECURSIVE Lower(_)
\* str.lower(), by halves
Lower(s) ==
    IF Len(s) = 0 THEN ""
    ELSE IF Len(s) = 1 THEN LowerChar(s)
    ELSE Lower(SubSeq(s, 1, Len(s) \div 2)) \o Lower(SubSeq(s, Len(s) \div 2 + 1, Len(s)))

\* w in t, for strings
Contains(t, w) == \E i \in 1..(Len(t) - Len(w) + 1) : SubSeq(t, i, i + Len(w) - 1) = w

\* str.strip()
Strip(s) ==
    LET keep == {i \in 1..Len(s) : Char(s, i) \notin Whitespace}
    IN  IF keep = {} THEN ""
        ELSE SubSeq(s, CHOOSE i \in keep : \A j \in keep : i <= j,
                       CHOOSE i \in keep : \A j \in keep : i >= j)

RECURSIVE Join(_, _)
\* sep.join(parts)
Join(parts, sep) ==
    IF Len(parts) = 0 THEN ""
    ELSE IF Len(parts) = 1 THEN parts[1]
    ELSE parts[1] \o sep \o Join(Tail(parts), sep)

RECURSIVE Grouped(_)
\* the thousands separator of the ',' format option, on a digit string
Grouped(ds) ==
    IF Len(ds) <= 3 THEN ds
    ELSE Grouped(SubSeq(ds, 1, Len(ds) - 3)) \o "," \o SubSeq(ds, Len(ds) - 2, Len(ds))

TwoDigits(n) == IF n < 10 THEN "0" \o ToString(n) ELSE ToString(n)

\* f"{amount:,.2f}" of an amount of `cents` cents
FormatMoney(cents) ==
    LET a == Abs(cents)
    IN  (IF cents < 0 THEN "-" ELSE "") \o Grouped(ToString(a \div 100))
            \o "." \o TwoDigits(a % 100)

\* f"{p:.1%}" of a probability of p percent points
FormatPercent(p) == ToString(p) \o ".0%"

\* f"{abs(w):.3f}" of a weight of w percent points (|w| < 100)
FormatWeight(w) == "0." \o TwoDigits(Abs(w)) \o "0"

\* str.find(c) + 1 for a one-character c: the first position of c in s, 0 if none
IndexOf(s, c) ==
    LET at == {i \in 1..Len(s) : Char(s, i) = c}
    IN  IF at = {} THEN 0 ELSE CHOOSE i \in at : \A j \in at : i <= j

\* s.split('$')[1], for an s that holds a '$'
AfterDollar(s) ==
    LET rest == SubSeq(s, IndexOf(s, "$") + 1, Len(s))
        j == IndexOf(rest, "$")
    IN  IF j = 0 THEN rest ELSE SubSeq(rest, 1, j - 1)

\* s.split()[0]: the first run of non-whitespace; "" stands for the IndexError
FirstToken(s) ==
    LET keep == {i \in 1..Len(s) : Char(s, i) \notin Whitespace}
    IN  IF keep = {} THEN ""
        ELSE LET b == CHOOSE i \in keep : \A j \in keep : i <= j
                 stop == {i \in b..Len(s) : Char(s, i) \in Whitespace}
                 e == IF stop = {} THEN Len(s)
                      ELSE (CHOOSE i \in stop : \A j \in stop : i <= j) - 1
             IN  SubSeq(s, b, e)

RECURSIVE RemoveCommas(_)
\* s.replace(',', ''), by halves
RemoveCommas(s) ==
    IF Len(s) = 0 THEN ""
    ELSE IF Len(s) = 1 THEN (IF s = "," THEN "" ELSE s)
    ELSE RemoveCommas(SubSeq(s, 1, Len(s) \div 2))
            \o RemoveCommas(SubSeq(s, Len(s) \div 2 + 1, Len(s)))

Digits == "0123456789"
IsDigits(s) == \A i \in 1..Len(s) : \E d \in 1..Len(Digits) : Char(Digits, d) = Char(s, i)
DigitValue(c) == (CHOOSE d \in 1..Len(Digits) : Char(Digits, d) = c) - 1

RECURSIVE ParseDigits(_)
ParseDigits(s) ==
    IF Len(s) = 0 THEN 0
    ELSE 10 * ParseDigits(SubSeq(s, 1, Len(s) - 1)) + DigitValue(Char(s, Len(s)))

\* float(s) in cents, for the decimal literals [-]digits[.digits] with at most two
\* fraction digits (what the ',.2f' format writes); ok = FALSE is the ValueError.
ParseFloat(s) ==
    LET neg == Len(s) > 0 /\ Char(s, 1) = "-"
        u == IF neg THEN SubSeq(s, 2, Len(s)) ELSE s
        dot == IndexOf(u, ".")
        ip == IF dot = 0 THEN u ELSE SubSeq(u, 1, dot - 1)
        fp == IF dot = 0 THEN "" ELSE SubSeq(u, dot + 1, Len(u))
        ok == /\ Len(ip) + Len(fp) > 0
              /\ IsDigits(ip) /\ IsDigits(fp) /\ Len(fp) <= 2
        mag == 100 * ParseDigits(ip)
                 + (IF Len(fp) = 1 THEN 10 ELSE 1) * ParseDigits(fp)
    IN  IF ok THEN [ok |-> TRUE, cents |-> IF neg THEN -mag ELSE mag]
        ELSE [ok |-> FALSE, cents |-> 0]

(***************************************************************************)
(* The claim records submitted in this model, and the configurations.      *)
(***************************************************************************)

\* How many of the claim records of ClaimTable are submitted.
NumClaims == 3

ClaimTable == <<
    [claim_id |-> "CLM-1", policy_type |-> "Health", amount |-> 1500000,
     description |-> "Emergency surgery for appendicitis",
     previous_claims |-> 2, policy_duration_months |-> 24],
    [claim_id |-> "CLM-2", policy_type |-> "Motor", amount |-> 2000000,
     description |-> "Car accident repair",
     medical_reports |-> PyStr("Reports available"),
     previous_claims |-> 3, policy_duration_months |-> 6],
    [claim_id |-> "CLM-3", policy_type |-> "Health", amount |-> 2000000,
     description |-> "Minor procedure", medical_reports |-> PyNone,
     previous_claims |-> 0, policy_duration_months |-> 12],
    [claim_id |-> "CLM-4", policy_type |-> "Health", amount |-> 25000000,
     description |-> "Elective cosmetic surgery procedure",
     medical_reports |-> PyStr("Confirmed diagnosis, necessary"),
     previous_claims |-> 1, policy_duration_months |-> 12],
    [claim_id |-> "CLM-5", policy_type |-> "Health", amount |-> 450000,
     description |-> "Suspicious hospital visit",
     previous_claims |-> 4, policy_duration_months |-> 2] >>

Claims == {ClaimTable[i] : i \in 1..Min(NumClaims, Len(ClaimTable))}

\* a claim whose text holds more keywords of either keyword table than the
\* reasoning text renders
ManyKeywordClaims == {
    [claim_id |-> "CLM-6", policy_type |-> "Health", amount |-> 800000,
     description |-> "Emergency surgery after accident, suspicious hospital diagnosis",
     medical_reports |-> PyStr("Reports available"),
     previous_claims |-> 1, policy_duration_months |-> 18] }

\* the claim records of the two example scenarios, as the scenarios give them
EmergencyScenario ==
    [amount |-> 1500000, description |-> "Emergency surgery for appendicitis",
     previous_claims |-> 2]
CosmeticScenario ==
    [amount |-> 25000000, description |-> "Elective cosmetic surgery procedure"]
ScenarioClaims == {EmergencyScenario, CosmeticScenario}

\* confidence_threshold: the default 0.7, the 0.9 of test_confidence_threshold, and 0.5
Thresholds == {50, 70, 90}

(***************************************************************************)
(* demo_lightweight.py: MockClassifier                                     *)
(***************************************************************************)

\* self.keywords, in the dict's (insertion) order
MockClassifier_keywords == <<
    <<"emergency", 30>>, <<"surgery", 25>>, <<"accident", 20>>,
    <<"hospital", 15>>, <<"diagnosis", 15>>, <<"necessary", 10>>,
    <<"confirmed", 10>>, <<"fraud", -50>>, <<"suspicious", -40>>,
    <<"elective", -30>>, <<"cosmetic", -35>>, <<"unauthorized", -35>> >>

\* random.uniform(-0.05, 0.05), on the percent grid
MaxJitter == 5
Jitters == (0 - MaxJitter)..MaxJitter

RECURSIVE KeywordScore_subtract(_, _, _)
\* mutant: the weight of a keyword found is subtracted
KeywordScore_subtract(keywords, text_lower, score) ==
    IF Len(keywords) = 0 THEN score
    ELSE KeywordScore_subtract(Tail(keywords), text_lower,
                      IF Contains(text_lower, Head(keywords)[1])
                      THEN score - Head(keywords)[2] ELSE score)

RECURSIVE KeywordScore(_, _, _)
\* the loop `for word, weight in keywords.items(): if word in text_lower: score += weight`
KeywordScore(keywords, text_lower, score) ==
    IF Len(keywords) = 0 THEN score
    ELSE KeywordScore(Tail(keywords), text_lower,
                      IF Contains(text_lower, Head(keywords)[1])
                      THEN score + Head(keywords)[2] ELSE score)

\* the claim-amount adjustment of predict, with its try/except
AmountAdjustment(text, score) ==
    IF IndexOf(text, "$") = 0 THEN score
    ELSE LET token == FirstToken(AfterDollar(text))
             amount == ParseFloat(RemoveCommas(token))
         IN  IF token = "" \/ ~amount.ok THEN score
             ELSE IF amount.cents > 10000000 THEN score - 20
             ELSE IF amount.cents < 500000 THEN score + 10
             ELSE score

\* mutant: the score is not clipped
Clip_none(score) == score

Clip(score) == Max(10, Min(90, score))

\* mutant: the score is not clipped again after the jitter is added
MockClassifier_predict_unclipped_jitter(text, jitter) ==
    LET base == KeywordScore(MockClassifier_keywords, Lower(text), 50)
        score == Clip(AmountAdjustment(text, base)) + jitter
    IN  <<100 - score, score>>

\* mutant: the vector is returned as (approve_prob, reject_prob)
MockClassifier_predict_swapped(text, jitter) ==
    LET base == KeywordScore(MockClassifier_keywords, Lower(text), 50)
        score == Clip(Clip(AmountAdjustment(text, base)) + jitter)
    IN  <<score, 100 - score>>

\* MockClassifier.predict, for the value `jitter` of random.uniform:
\* <<reject_prob, approve_prob>>
MockClassifier_predict(text, jitter) ==
    LET base == KeywordScore(MockClassifier_keywords, Lower(text), 50)
        score == Clip(Clip(AmountAdjustment(text, base)) + jitter)
    IN  <<100 - score, score>>

RECURSIVE MatchedFeatures(_, _)
\* one feature per keyword of the table found in the text, in the table's order
MatchedFeatures(keywords, text_lower) ==
    IF Len(keywords) = 0 THEN <<>>
    ELSE (IF Contains(text_lower, Head(keywords)[1])
          THEN << [feature |-> Head(keywords)[1], shap_value |-> Head(keywords)[2],
                   impact |-> IF Head(keywords)[2] > 0 THEN "positive" ELSE "negative"] >>
          ELSE <<>>) \o MatchedFeatures(Tail(keywords), text_lower)

\* the place list.sort(key=abs, reverse=True) gives f among the sorted fs: the sort
\* is stable, so f goes after every element whose key is not smaller
InsertByAbs(fs, f) ==
    LET before == {i \in 1..Len(fs) : Abs(fs[i].shap_value) >= Abs(f.shap_value)}
        k == Cardinality(before)
    IN  SubSeq(fs, 1, k) \o <<f>> \o SubSeq(fs, k + 1, Len(fs))

RECURSIVE SortByAbs(_)
\* sorted(features, key=lambda x: abs(x['shap_value']), reverse=True)
SortByAbs(fs) ==
    IF Len(fs) = 0 THEN <<>>
    ELSE InsertByAbs(SortByAbs(SubSeq(fs, 1, Len(fs) - 1)), fs[Len(fs)])

\* MockClassifier.get_explanation
MockClassifier_get_explanation(text) ==
    [top_features |-> SortByAbs(MatchedFeatures(MockClassifier_keywords, Lower(text))),
     base_value |-> 50,
     method |-> "keyword_based"]

(***************************************************************************)
(* The workflow state (ClaimState) and the stages of SimpleLangGraphAgent. *)
(***************************************************************************)

\* {}
EmptyDict == <<>>

\* the state process_claim starts a run with (the same in both agents)
InitialState(claim_data) ==
    [claim_data |-> claim_data, claim_text |-> "", prediction |-> "",
     confidence |-> 0, shap_explanation |-> EmptyDict,
     decision_reasoning |-> "", messages |-> <<>>, requires_human_review |-> FALSE]

\* the f-string of preprocess_claim, stripped (the same in both agents)
FormatClaimText(claim_data) ==
    Strip("\nClaim ID: " \o Get(claim_data, "claim_id", "N/A")
          \o "\nPolicy Type: " \o Get(claim_data, "policy_type", "N/A")
          \o "\nClaim Amount: $" \o FormatMoney(Get(claim_data, "amount", 0))
          \o "\nDescription: " \o Get(claim_data, "description", "N/A")
          \o "\nMedical Reports: "
          \o Str(Get(claim_data, "medical_reports", PyStr("None provided")))
          \o "\nPrevious Claims: " \o ToString(Get(claim_data, "previous_claims", 0))
          \o "\nPolicy Duration: "
          \o ToString(Get(claim_data, "policy_duration_months", 0)) \o " months\n")

Message(role, content) == [role |-> role, content |-> content]

Simple_preprocess_claim(state) ==
    [state EXCEPT
        !.claim_text = FormatClaimText(state.claim_data),
        !.messages = Append(@, Message("system", "[OK] Preprocessed claim "
                        \o Get(state.claim_data, "claim_id", "None")))]

\* mutant: an approval probability of exactly 0.5 approves
Label_ge(probs) == IF probs[2] >= 50 THEN "APPROVED" ELSE "REJECTED"

\* prediction = "APPROVED" if probs[1] > 0.5 else "REJECTED"
Label(probs) == IF probs[2] > 50 THEN "APPROVED" ELSE "REJECTED"

\* mutant: the confidence is the approval probability
Confidence_approve(probs) == probs[2]

\* mutant: the confidence is the smaller class probability
Confidence_min(probs) == Min(probs[1], probs[2])

\* confidence = float(max(probs))
Confidence(probs) == Max(probs[1], probs[2])

Simple_classify_claim(state, probs) ==
    [state EXCEPT
        !.prediction = Label(probs),
        !.confidence = Confidence(probs),
        !.messages = Append(@, Message("assistant", "[OK] Classification: "
                        \o Label(probs) \o " (confidence: "
                        \o FormatPercent(Confidence(probs)) \o ")"))]

RECURSIVE FeatureLines(_)
FeatureLines(features) ==
    IF Len(features) = 0 THEN <<>>
    ELSE << "  * '" \o Head(features).feature \o "' (impact: "
            \o FormatWeight(Head(features).shap_value) \o ", "
            \o (IF Head(features).shap_value > 0 THEN "supporting approval"
                ELSE "supporting rejection") \o ")" >>
         \o FeatureLines(Tail(features))

\* how many features the reasoning text renders: top_features[:5]
TopK == 5

\* mutant: the reasoning text renders every feature
Reasoning_untruncated(state, explanation) ==
    Join(<< "Decision: " \o state.prediction,
            "Confidence: " \o FormatPercent(state.confidence),
            "",
            "Key factors influencing this decision:" >>
         \o FeatureLines(explanation.top_features),
         "\n")

\* the reasoning text of explain_decision (the same in both agents)
Reasoning(state, explanation) ==
    Join(<< "Decision: " \o state.prediction,
            "Confidence: " \o FormatPercent(state.confidence),
            "",
            "Key factors influencing this decision:" >>
         \o FeatureLines(SubSeq(explanation.top_features, 1,
                                Min(TopK, Len(explanation.top_features)))),
         "\n")

Simple_explain_decision(state) ==
    LET explanation == MockClassifier_get_explanation(state.claim_text)
    IN  [state EXCEPT
            !.shap_explanation = explanation,
            !.decision_reasoning = Reasoning(state, explanation),
            !.messages = Append(@, Message("assistant", Reasoning(state, explanation)))]

\* mutant: a confidence equal to the threshold is sent to review
Simple_check_confidence_le(state, threshold) ==
    IF state.confidence <= threshold THEN "human_review" ELSE "finalize"

\* mutant: the comparison is the other way round
Simple_check_confidence_gt(state, threshold) ==
    IF state.confidence > threshold THEN "human_review" ELSE "finalize"

Simple_check_confidence(state, threshold) ==
    IF state.confidence < threshold THEN "human_review" ELSE "finalize"

PendingSuffix == " - PENDING HUMAN REVIEW"

\* mutant: flagging for review rewrites the first line of the reasoning text
Simple_request_human_review_rewrites(state) ==
    [state EXCEPT
        !.requires_human_review = TRUE,
        !.messages = Append(@, Message("system", "[!] Confidence ("
                        \o FormatPercent(state.confidence)
                        \o ") below threshold. Flagging for human review.")),
        !.prediction = @ \o PendingSuffix,
        !.decision_reasoning = "Decision: " \o state.prediction \o PendingSuffix
                                  \o "\n" \o @]

Simple_request_human_review(state) ==
    [state EXCEPT
        !.requires_human_review = TRUE,
        !.messages = Append(@, Message("system", "[!] Confidence ("
                        \o FormatPercent(state.confidence)
                        \o ") below threshold. Flagging for human review.")),
        !.prediction = @ \o PendingSuffix]

\* mutant: finalizing a decision makes it certain
Simple_finalize_decision_certain(state) ==
    [state EXCEPT
        !.requires_human_review = FALSE,
        !.confidence = 100,
        !.messages = Append(@, Message("system", "[OK] Claim decision finalized: "
                        \o state.prediction))]

Simple_finalize_decision(state) ==
    [state EXCEPT
        !.requires_human_review = FALSE,
        !.messages = Append(@, Message("system", "[OK] Claim decision finalized: "
                        \o state.prediction))]

(***************************************************************************)
(* claim_classifier.py and agent.py: QwenClaimClassifier and the nodes of  *)
(* ClaimProcessingAgent.                                                   *)
(***************************************************************************)

\* the keywords of get_simple_explanation, in the dict's order
QwenClaimClassifier_keywords == <<
    <<"emergency", 30>>, <<"surgery", 25>>, <<"accident", 20>>,
    <<"hospital", 15>>, <<"diagnosis", 15>>, <<"fraud", -50>>,
    <<"suspicious", -40>>, <<"false", -30>>, <<"unauthorized", -35>> >>

QwenClaimClassifier_get_simple_explanation(text) ==
    [top_features |->
        SortByAbs(MatchedFeatures(QwenClaimClassifier_keywords, Lower(text))),
     method |-> "rule_based"]

\* QwenClaimClassifier.predict is a softmax over two logits of a learned model:
\* <<1 - p, p>> for an approval probability p the model decides.  The p's tried:
QwenApprovals == {30, 50, 60, 90}

QwenClaimClassifier_predict(p) == <<100 - p, p>>

Agent_preprocess_claim(state) ==
    [state EXCEPT
        !.claim_text = FormatClaimText(state.claim_data),
        !.messages = Append(@, Message("system", "Processing claim: "
                        \o Get(state.claim_data, "claim_id", "Unknown")))]

Agent_classify_claim(state, probs) ==
    [state EXCEPT
        !.prediction = Label(probs),
        !.confidence = Confidence(probs),
        !.messages = Append(@, Message("assistant", "Classification: "
                        \o Label(probs) \o " (confidence: "
                        \o FormatPercent(Confidence(probs)) \o ")"))]

\* explain_decision with use_shap = False
Agent_explain_decision(state) ==
    LET explanation == QwenClaimClassifier_get_simple_explanation(state.claim_text)
    IN  [state EXCEPT
            !.shap_explanation = explanation,
            !.decision_reasoning = Reasoning(state, explanation),
            !.messages = Append(@, Message("assistant", Reasoning(state, explanation)))]

\* What get_shap_explanation does with a text: it raises, or it returns the
\* attributions the explainer computed.
ShapRaises == [raises |-> TRUE, explanation |-> EmptyDict]
ShapReturns(explanation) == [raises |-> FALSE, explanation |-> explanation]

\* str(e) of the exception of get_shap_explanation
ShapError == "SHAP explainer failed"

\* An explanation get_shap_explanation returns: up to ten words of the text by
\* descending |shap value|.  The values are the explainer's; these are words
\* every claim text holds.
ShapExplanations == {
    [top_features |-> <<
        [feature |-> "Description:", shap_value |-> 12, impact |-> "positive"],
        [feature |-> "Amount:", shap_value |-> -9, impact |-> "negative"],
        [feature |-> "Medical", shap_value |-> 7, impact |-> "positive"],
        [feature |-> "Policy", shap_value |-> -5, impact |-> "negative"],
        [feature |-> "Previous", shap_value |-> -4, impact |-> "negative"],
        [feature |-> "Duration:", shap_value |-> 3, impact |-> "positive"],
        [feature |-> "months", shap_value |-> 1, impact |-> "positive"] >>,
     base_value |-> 50] }

ShapOutcomes == {ShapRaises} \cup {ShapReturns(e) : e \in ShapExplanations}

\* the explanation explain_decision gets with use_shap = True
ShapOrFallback(state, outcome) ==
    IF outcome.raises
    THEN QwenClaimClassifier_get_simple_explanation(state.claim_text)
    ELSE outcome.explanation

\* explain_decision with use_shap = True, once get_shap_explanation has raised
\* (and the except clause has run) or returned
Agent_explain_decision_shap(state, outcome) ==
    LET explanation == ShapOrFallback(state, outcome)
    IN  [state EXCEPT
            !.shap_explanation = explanation,
            !.decision_reasoning = Reasoning(state, explanation),
            !.messages = Append(@, Message("assistant", Reasoning(state, explanation)))]

Agent_check_confidence_threshold(state, threshold) ==
    IF state.confidence < threshold THEN "human_review" ELSE "finalize"

\* mutant: the qualifier replaces the base label
Agent_request_human_review_replace(state, threshold) ==
    [state EXCEPT
        !.requires_human_review = TRUE,
        !.messages = Append(@, Message("system", "[!] Confidence ("
                        \o FormatPercent(state.confidence) \o ") below threshold ("
                        \o FormatPercent(threshold)
                        \o "). Flagging for human review.")),
        !.prediction = "PENDING HUMAN REVIEW"]

Agent_request_human_review(state, threshold) ==
    [state EXCEPT
        !.requires_human_review = TRUE,
        !.messages = Append(@, Message("system", "[!] Confidence ("
                        \o FormatPercent(state.confidence) \o ") below threshold ("
                        \o FormatPercent(threshold)
                        \o "). Flagging for human review.")),
        !.prediction = @ \o PendingSuffix]

Agent_finalize_decision(state) ==
    [state EXCEPT
        !.requires_human_review = FALSE,
        !.messages = Append(@, Message("system", "[OK] Claim decision finalized: "
                        \o state.prediction))]

(***************************************************************************)
(* The compiled StateGraph of _build_workflow.  Every key of ClaimState is *)
(* a channel; a node is handed the channels' values and what it returns is *)
(* written back: a plain key keeps the value written, `messages`, declared *)
(* Annotated[list, operator.add], becomes  held + written.  The nodes      *)
(* append to state['messages'] in place and return the whole state.  If    *)
(* the executor hands the node the channel's own list (channel_alias), the *)
(* append has changed the held list as well by the time of the write; if   *)
(* it hands over a copy, the held list is the one of before the node.      *)
(***************************************************************************)

END == "__end__"
\* mutant: the graph is entered at classify
entry_point_classify == "classify"

entry_point == "preprocess"

\* mutant: human_review leads on to finalize
edges_review_then_finalize ==
    [preprocess |-> "classify", classify |-> "explain",
     human_review |-> "finalize", finalize |-> "__end__"]

\* add_edge
edges == [preprocess |-> "classify", classify |-> "explain",
          human_review |-> END, finalize |-> END]

\* the path map of add_conditional_edges("explain", ...)
path_map == [human_review |-> "human_review", finalize |-> "finalize"]

\* the write of a node's return value into the channels
ChannelWrite(channels, returned, alias) ==
    [returned EXCEPT
        !.messages = (IF alias THEN returned.messages ELSE channels.messages)
                        \o returned.messages]

\* workflow.invoke(initial_state) writes its input into the channels the same way
ChannelInput(initial_state) ==
    [initial_state EXCEPT !.messages = <<>> \o initial_state.messages]

(***************************************************************************)
(* A process_claim call, one stage per step.  The process is single-       *)
(* threaded and a call runs to its end, so one call is in progress at a    *)
(* time: `call` is that call, on the agent `call.agent`.  `probs` records  *)
(* what the classifier returned, `trace` the stages run so far.            *)
(***************************************************************************)

NoCall == [agent |-> "none", pc |-> "idle", state |-> InitialState(EmptyDict),
           probs |-> <<>>, trace |-> <<>>, shap_raised |-> FALSE, log |-> <<>>]

Running == call.pc \notin {"idle", "done", "raised"}

At(agent, pc) == call.agent = agent /\ call.pc = pc

\* SimpleLangGraphAgent.process_claim, up to the first stage
SimpleProcessClaim(claim_data) ==
    /\ ~Running
    /\ call' = [agent |-> "simple", pc |-> "preprocess",
                state |-> InitialState(claim_data), probs |-> <<>>, trace |-> <<>>,
                shap_raised |-> FALSE, log |-> <<>>]
    /\ UNCHANGED <<confidence_threshold, channel_alias, parity, engine, batch,
                 use_shap, mock, sweep, api, pool, pii>>

SimplePreprocess ==
    /\ At("simple", "preprocess")
    /\ call' = [call EXCEPT !.pc = "classify",
                            !.state = Simple_preprocess_claim(@),
                            !.trace = Append(@, "preprocess")]
    /\ UNCHANGED <<confidence_threshold, channel_alias, parity, engine, batch,
                 use_shap, mock, sweep, api, pool, pii>>

SimpleClassify(jitter) ==
    /\ At("simple", "classify")
    /\ LET probs == MockClassifier_predict(call.state.claim_text, jitter)
       IN  call' = [call EXCEPT !.pc = "explain",
                                !.state = Simple_classify_claim(@, probs),
                                !.probs = probs,
                                !.trace = Append(@, "classify")]
    /\ UNCHANGED <<confidence_threshold, channel_alias, parity, engine, batch,
                 use_shap, mock, sweep, api, pool, pii>>

SimpleExplain ==
    /\ At("simple", "explain")
    /\ call' = [call EXCEPT !.pc = "route",
                            !.state = Simple_explain_decision(@),
                            !.trace = Append(@, "explain")]
    /\ UNCHANGED <<confidence_threshold, channel_alias, parity, engine, batch,
                 use_shap, mock, sweep, api, pool, pii>>

\* if self.check_confidence(state) == "human_review": ... else: ...
SimpleRoute ==
    /\ At("simple", "route")
    /\ call' = [call EXCEPT
            !.pc = IF Simple_check_confidence(call.state, confidence_threshold)
                        = "human_review"
                   THEN "human_review" ELSE "finalize",
            !.trace = Append(@, "route")]
    /\ UNCHANGED <<confidence_threshold, channel_alias, parity, engine, batch,
                 use_shap, mock, sweep, api, pool, pii>>

SimpleHumanReview ==
    /\ At("simple", "human_review")
    /\ call' = [call EXCEPT !.pc = "done",
                            !.state = Simple_request_human_review(@),
                            !.trace = Append(@, "human_review")]
    /\ UNCHANGED <<confidence_threshold, channel_alias, parity, engine, batch,
                 use_shap, mock, sweep, api, pool, pii>>

SimpleFinalize ==
    /\ At("simple", "finalize")
    /\ call' = [call EXCEPT !.pc = "done",
                            !.state = Simple_finalize_decision(@),
                            !.trace = Append(@, "finalize")]
    /\ UNCHANGED <<confidence_threshold, channel_alias, parity, engine, batch,
                 use_shap, mock, sweep, api, pool, pii>>

\* ClaimProcessingAgent.process_claim, up to the entry point of the graph;
\* call.state holds the channels
GraphProcessClaim(claim_data) ==
    /\ ~Running
    /\ call' = [agent |-> "graph", pc |-> entry_point,
                state |-> ChannelInput(InitialState(claim_data)),
                probs |-> <<>>, trace |-> <<>>, shap_raised |-> FALSE, log |-> <<>>]
    /\ UNCHANGED <<confidence_threshold, channel_alias, parity, engine, batch,
                 use_shap, mock, sweep, api, pool, pii>>

GraphPreprocess ==
    /\ At("graph", "preprocess")
    /\ call' = [call EXCEPT
            !.pc = edges.preprocess,
            !.state = ChannelWrite(@, Agent_preprocess_claim(@), channel_alias),
            !.trace = Append(@, "preprocess")]
    /\ UNCHANGED <<confidence_threshold, channel_alias, parity, engine, batch,
                 use_shap, mock, sweep, api, pool, pii>>

GraphClassify(p) ==
    /\ At("graph", "classify")
    /\ LET probs == QwenClaimClassifier_predict(p)
       IN  call' = [call EXCEPT
                !.pc = edges.classify,
                !.state = ChannelWrite(@, Agent_classify_claim(@, probs), channel_alias),
                !.probs = probs,
                !.trace = Append(@, "classify")]
    /\ UNCHANGED <<confidence_threshold, channel_alias, parity, engine, batch,
                 use_shap, mock, sweep, api, pool, pii>>

\* self.classifier.predict raises: the exception leaves classify_claim, the graph
\* and process_claim
GraphClassifyRaises ==
    /\ At("graph", "classify")
    /\ call' = [call EXCEPT !.pc = "raised"]
    /\ UNCHANGED <<confidence_threshold, channel_alias, parity, engine, batch,
                 use_shap, mock, sweep, api, pool, pii>>

\* mutant: explain_decision has no try/except around get_shap_explanation
GraphExplainShap_uncaught(outcome) ==
    /\ At("graph", "explain")
    /\ use_shap
    /\ call' = IF outcome.raises
               THEN [call EXCEPT !.pc = "raised", !.shap_raised = TRUE]
               ELSE [call EXCEPT
                        !.pc = "route",
                        !.state = ChannelWrite(@, Agent_explain_decision_shap(@, outcome),
                                               channel_alias),
                        !.trace = Append(@, "explain")]
    /\ UNCHANGED <<confidence_threshold, channel_alias, parity, engine, batch,
                 use_shap, mock, sweep, api, pool, pii>>

\* the explain node of an agent with use_shap = True; the except clause prints
\* the fallback
GraphExplainShap(outcome) ==
    /\ At("graph", "explain")
    /\ use_shap
    /\ call' = [call EXCEPT
            !.pc = "route",
            !.state = ChannelWrite(@, Agent_explain_decision_shap(@, outcome),
                                   channel_alias),
            !.trace = Append(@, "explain"),
            !.shap_raised = outcome.raises,
            !.log = IF outcome.raises
                    THEN Append(@, "SHAP failed, using simple explanation: "
                                        \o ShapError)
                    ELSE @]
    /\ UNCHANGED <<confidence_threshold, channel_alias, parity, engine, batch,
                 use_shap, mock, sweep, api, pool, pii>>

\* the explain node of an agent with use_shap = False
GraphExplain ==
    /\ At("graph", "explain")
    /\ ~use_shap
    /\ call' = [call EXCEPT
            !.pc = "route",
            !.state = ChannelWrite(@, Agent_explain_decision(@), channel_alias),
            !.trace = Append(@, "explain")]
    /\ UNCHANGED <<confidence_threshold, channel_alias, parity, engine, batch,
                 use_shap, mock, sweep, api, pool, pii>>

\* the conditional edge out of "explain"
GraphRoute ==
    /\ At("graph", "route")
    /\ call' = [call EXCEPT
            !.pc = path_map[Agent_check_confidence_threshold(call.state,
                                                             confidence_threshold)],
            !.trace = Append(@, "route")]
    /\ UNCHANGED <<confidence_threshold, channel_alias, parity, engine, batch,
                 use_shap, mock, sweep, api, pool, pii>>

Finished(next) == IF next = END THEN "done" ELSE next

GraphHumanReview ==
    /\ At("graph", "human_review")
    /\ call' = [call EXCEPT
            !.pc = Finished(edges.human_review),
            !.state = ChannelWrite(@, Agent_request_human_review(@, confidence_threshold),
                                   channel_alias),
            !.trace = Append(@, "human_review")]
    /\ UNCHANGED <<confidence_threshold, channel_alias, parity, engine, batch,
                 use_shap, mock, sweep, api, pool, pii>>

GraphFinalize ==
    /\ At("graph", "finalize")
    /\ call' = [call EXCEPT
            !.pc = Finished(edges.finalize),
            !.state = ChannelWrite(@, Agent_finalize_decision(@), channel_alias),
            !.trace = Append(@, "finalize")]
    /\ UNCHANGED <<confidence_threshold, channel_alias, parity, engine, batch,
                 use_shap, mock, sweep, api, pool, pii>>

(***************************************************************************)
(* process_claim as a whole: the stages above, composed as the code        *)
(* composes them.                                                          *)
(***************************************************************************)

\* SimpleLangGraphAgent.process_claim, for the value `jitter` of random.uniform
Simple_process_claim(claim_data, jitter, threshold) ==
    LET s1 == Simple_preprocess_claim(InitialState(claim_data))
        s2 == Simple_classify_claim(s1, MockClassifier_predict(s1.claim_text, jitter))
        s3 == Simple_explain_decision(s2)
    IN  IF Simple_check_confidence(s3, threshold) = "human_review"
        THEN Simple_request_human_review(s3)
        ELSE Simple_finalize_decision(s3)

\* What the classification engine does with a text: it raises, or it returns
\* <<1 - p, p>>.
Raises == [raises |-> TRUE, p |-> 0]
Returns(p) == [raises |-> FALSE, p |-> p]

\* the node function add_node gave each node
RunNode(node, state, outcome, threshold) ==
    CASE node = "preprocess" -> Agent_preprocess_claim(state)
      [] node = "classify" ->
            Agent_classify_claim(state, QwenClaimClassifier_predict(outcome.p))
      [] node = "explain" -> Agent_explain_decision(state)
      [] node = "human_review" -> Agent_request_human_review(state, threshold)
      [] node = "finalize" -> Agent_finalize_decision(state)

\* the node the edges lead to from `node`, given the channels after its write
NextNode(node, channels, threshold) ==
    IF node = "explain"
    THEN path_map[Agent_check_confidence_threshold(channels, threshold)]
    ELSE edges[node]

RECURSIVE Invoke(_, _, _, _, _)
\* the run of the compiled graph from `node` on: the final channels, or the
\* exception of the engine
Invoke(node, channels, outcome, threshold, alias) ==
    IF node = END THEN [raised |-> FALSE, state |-> channels]
    ELSE IF node = "classify" /\ outcome.raises THEN [raised |-> TRUE, state |-> channels]
    ELSE LET written == ChannelWrite(channels,
                                     RunNode(node, channels, outcome, threshold), alias)
         IN  Invoke(NextNode(node, written, threshold), written,
                    outcome, threshold, alias)

\* ClaimProcessingAgent.process_claim: workflow.invoke(initial_state)
Agent_process_claim(claim_data, outcome, threshold, alias) ==
    Invoke(entry_point, ChannelInput(InitialState(claim_data)), outcome, threshold, alias)

(***************************************************************************)
(* The two agents on one claim record, for comparing what they return.     *)
(***************************************************************************)

NoParity == [pc |-> "idle", claim_data |-> EmptyDict, probs |-> <<>>,
             simple |-> InitialState(EmptyDict), graph |-> InitialState(EmptyDict)]

ParitySubmit(claim_data) ==
    /\ parity.pc \in {"idle", "done"}
    /\ parity' = [NoParity EXCEPT !.pc = "simple", !.claim_data = claim_data]
    /\ UNCHANGED <<confidence_threshold, channel_alias, call, engine, batch,
                 use_shap, mock, sweep, api, pool, pii>>

ParityRunSimple(jitter) ==
    /\ parity.pc = "simple"
    /\ parity' = [parity EXCEPT
            !.pc = "graph",
            !.probs = MockClassifier_predict(FormatClaimText(parity.claim_data), jitter),
            !.simple = Simple_process_claim(parity.claim_data, jitter,
                                            confidence_threshold)]
    /\ UNCHANGED <<confidence_threshold, channel_alias, call, engine, batch,
                 use_shap, mock, sweep, api, pool, pii>>

\* the learned classifier returns the probabilities the fallback classifier returned
ParityRunGraph ==
    /\ parity.pc = "graph"
    /\ parity' = [parity EXCEPT
            !.pc = "done",
            !.graph = Agent_process_claim(parity.claim_data, Returns(parity.probs[2]),
                                          confidence_threshold, channel_alias).state]
    /\ UNCHANGED <<confidence_threshold, channel_alias, call, engine, batch,
                 use_shap, mock, sweep, api, pool, pii>>

ParityNext ==
    \/ \E c \in Claims : ParitySubmit(c)
    \/ \E j \in Jitters : ParityRunSimple(j)
    \/ ParityRunGraph

(***************************************************************************)
(* api_server.py: batch_process_claims.  The agent is the one startup made *)
(* (create_agent(confidence_threshold=0.7, use_shap=False)); the engine is *)
(* a function of the text it is given.                                     *)
(***************************************************************************)

ApiThreshold == 70

\* if len(claims) > 100
MaxBatchSize == 100

\* ClaimRequest.dict(): every field, the optional ones with their defaults
ClaimRequest_dict(claim) ==
    [claim_id |-> claim.claim_id, policy_type |-> claim.policy_type,
     amount |-> claim.amount, description |-> claim.description,
     medical_reports |-> Get(claim, "medical_reports", PyNone),
     previous_claims |-> Get(claim, "previous_claims", 0),
     policy_duration_months |-> Get(claim, "policy_duration_months", 0)]

\* The claim records that occur in batch requests, and the longest batch made of
\* every combination of them.
BatchClaims == {ClaimTable[1], ClaimTable[2]}
MaxBatchLen == 2

BatchTexts == {FormatClaimText(ClaimRequest_dict(c)) : c \in BatchClaims}

\* the outcomes of the engine tried in batches
BatchOutcomes == {Raises, Returns(30), Returns(60)}

\* str(e) of the exception of the engine
EngineError == "classification engine failed"

\* The requests: every batch of up to MaxBatchLen claims, the batch of the fifth
\* testable property (the third claim of five differs from the rest), and the
\* batches of MaxBatchSize and MaxBatchSize + 1 times the same claim.
Requests ==
    UNION {[1..n -> BatchClaims] : n \in 0..MaxBatchLen}
    \cup {[i \in 1..5 |-> IF i = 3 THEN ClaimTable[2] ELSE ClaimTable[1]]}
    \cup {[i \in 1..n |-> ClaimTable[1]] : n \in {MaxBatchSize, MaxBatchSize + 1}}

NoBatch == [pc |-> "idle", claims |-> <<>>, results |-> <<>>, calls |-> 0,
            response |-> [status |-> 0]]

\* mutant: the size check is len(claims) >= 100
BatchReceive_ge(claims) ==
    /\ batch.pc \in {"idle", "done"}
    /\ batch' = IF Len(claims) >= MaxBatchSize
                THEN [NoBatch EXCEPT
                        !.pc = "done", !.claims = claims,
                        !.response = [status |-> 400,
                                      detail |-> "Maximum 100 claims per batch"]]
                ELSE [NoBatch EXCEPT !.pc = "loop", !.claims = claims]
    /\ UNCHANGED <<confidence_threshold, channel_alias, call, parity, engine,
                 use_shap, mock, sweep, api, pool, pii>>

\* the request arrives and passes the size check, or fails it with HTTP 400
BatchReceive(claims) ==
    /\ batch.pc \in {"idle", "done"}
    /\ batch' = IF Len(claims) > MaxBatchSize
                THEN [NoBatch EXCEPT
                        !.pc = "done", !.claims = claims,
                        !.response = [status |-> 400,
                                      detail |-> "Maximum 100 claims per batch"]]
                ELSE [NoBatch EXCEPT !.pc = "loop", !.claims = claims]
    /\ UNCHANGED <<confidence_threshold, channel_alias, call, parity, engine,
                 use_shap, mock, sweep, api, pool, pii>>

\* the result the loop appends for `claim`
BatchResult(claim, outcome, threshold, alias) ==
    LET run == Agent_process_claim(ClaimRequest_dict(claim), outcome, threshold, alias)
    IN  IF run.raised
        THEN [claim_id |-> claim.claim_id, error |-> EngineError]
        ELSE [claim_id |-> run.state.claim_data.claim_id,
              prediction |-> run.state.prediction,
              confidence |-> run.state.confidence,
              requires_human_review |-> run.state.requires_human_review]

\* mutant: no try/except in the loop, the exception of a claim ends the request
BatchIterate_abort ==
    /\ batch.pc = "loop"
    /\ Len(batch.results) < Len(batch.claims)
    /\ LET claim == batch.claims[Len(batch.results) + 1]
           outcome == engine[FormatClaimText(ClaimRequest_dict(claim))]
       IN  batch' = IF outcome.raises
                    THEN [batch EXCEPT !.calls = @ + 1, !.pc = "done",
                                       !.response = [status |-> 500]]
                    ELSE [batch EXCEPT
                            !.calls = @ + 1,
                            !.results = Append(@, BatchResult(claim, outcome,
                                            confidence_threshold, channel_alias))]
    /\ UNCHANGED <<confidence_threshold, channel_alias, call, parity, engine,
                 use_shap, mock, sweep, api, pool, pii>>

\* one iteration of `for claim in claims`
BatchIterate ==
    /\ batch.pc = "loop"
    /\ Len(batch.results) < Len(batch.claims)
    /\ LET claim == batch.claims[Len(batch.results) + 1]
           outcome == engine[FormatClaimText(ClaimRequest_dict(claim))]
       IN  batch' = [batch EXCEPT
                !.calls = @ + 1,
                !.results = Append(@, BatchResult(claim, outcome, confidence_threshold,
                                                  channel_alias))]
    /\ UNCHANGED <<confidence_threshold, channel_alias, call, parity, engine,
                 use_shap, mock, sweep, api, pool, pii>>

\* the loop is over: return {...}
BatchReturn ==
    /\ batch.pc = "loop"
    /\ Len(batch.results) = Len(batch.claims)
    /\ batch' = [batch EXCEPT
            !.pc = "done",
            !.response = [status |-> 200, total |-> Len(batch.claims),
                          processed |-> Len(batch.results),
                          results |-> batch.results]]
    /\ UNCHANGED <<confidence_threshold, channel_alias, call, parity, engine,
                 use_shap, mock, sweep, api, pool, pii>>

BatchNext ==
    \/ \E r \in Requests : BatchReceive(r)
    \/ BatchIterate
    \/ BatchReturn

(***************************************************************************)
(* MockClassifier and the rule-based explainers on their own: a text is    *)
(* given to predict and get_explanation of MockClassifier, run after run,  *)
(* and to get_simple_explanation of QwenClaimClassifier.                   *)
(***************************************************************************)

\* How many times predict / get_explanation are run on one text.
MaxRuns == 2

\* The texts given to the classifier and the explainers.
ProbeTexts == {
    "",
    "Routine visit",
    "Hospital diagnosis $15,000.00",
    "Diagnosis confirmed at hospital, necessary",
    "Unauthorized cosmetic procedure $250,000.00",
    "False report of an accident $1,200.00",
    "Emergency surgery after accident, suspicious hospital diagnosis",
    FormatClaimText(ClaimTable[2]) }

NoMock == [pc |-> "idle", text |-> "", runs |-> <<>>, rule_based |-> <<>>]

\* a text arrives at the classifier
MockSubmit(text) ==
    /\ mock.pc \in {"idle", "ran"}
    /\ mock' = [NoMock EXCEPT !.pc = "ran", !.text = text]
    /\ UNCHANGED <<confidence_threshold, channel_alias, call, parity, engine, batch,
                   use_shap, sweep, api, pool, pii>>

\* classifier.predict(text) and classifier.get_explanation(text), once more on the
\* same text; random.uniform returns `jitter`
MockRun(jitter) ==
    /\ mock.pc = "ran"
    /\ Len(mock.runs) < MaxRuns
    /\ mock' = [mock EXCEPT
            !.runs = Append(@, [jitter |-> jitter,
                                probs |-> MockClassifier_predict(mock.text, jitter),
                                explanation |-> MockClassifier_get_explanation(mock.text)])]
    /\ UNCHANGED <<confidence_threshold, channel_alias, call, parity, engine, batch,
                   use_shap, sweep, api, pool, pii>>

\* QwenClaimClassifier.get_simple_explanation(text)
QwenExplain ==
    /\ mock.pc = "ran"
    /\ mock.rule_based = <<>>
    /\ mock' = [mock EXCEPT
            !.rule_based = <<QwenClaimClassifier_get_simple_explanation(mock.text)>>]
    /\ UNCHANGED <<confidence_threshold, channel_alias, call, parity, engine, batch,
                   use_shap, sweep, api, pool, pii>>

MockNext ==
    \/ \E t \in ProbeTexts : MockSubmit(t)
    \/ \E j \in Jitters : MockRun(j)
    \/ QwenExplain

(***************************************************************************)
(* test_agent.py, test_confidence_threshold: one claim record processed by *)
(* an agent with a lower and by an agent with a higher threshold.          *)
(***************************************************************************)

NoSweep == [pc |-> "idle", claim_data |-> EmptyDict, low_threshold |-> 0,
            high_threshold |-> 0,
            low |-> InitialState(EmptyDict), high |-> InitialState(EmptyDict)]

\* agent_low = SimpleLangGraphAgent(t1); agent_high = SimpleLangGraphAgent(t2)
SweepSubmit(claim_data, t1, t2) ==
    /\ sweep.pc \in {"idle", "done"}
    /\ t1 <= t2
    /\ sweep' = [NoSweep EXCEPT !.pc = "low", !.claim_data = claim_data,
                                !.low_threshold = t1, !.high_threshold = t2]
    /\ UNCHANGED <<confidence_threshold, channel_alias, call, parity, engine, batch,
                   use_shap, mock, api, pool, pii>>

\* result_low = agent_low.process_claim(borderline_claim)
SweepRunLow(jitter) ==
    /\ sweep.pc = "low"
    /\ sweep' = [sweep EXCEPT
            !.pc = "high",
            !.low = Simple_process_claim(sweep.claim_data, jitter, sweep.low_threshold)]
    /\ UNCHANGED <<confidence_threshold, channel_alias, call, parity, engine, batch,
                   use_shap, mock, api, pool, pii>>

\* result_high = agent_high.process_claim(borderline_claim)
SweepRunHigh(jitter) ==
    /\ sweep.pc = "high"
    /\ sweep' = [sweep EXCEPT
            !.pc = "done",
            !.high = Simple_process_claim(sweep.claim_data, jitter, sweep.high_threshold)]
    /\ UNCHANGED <<confidence_threshold, channel_alias, call, parity, engine, batch,
                   use_shap, mock, api, pool, pii>>

SweepNext ==
    \/ \E c \in Claims, t1, t2 \in Thresholds : SweepSubmit(c, t1, t2)
    \/ \E j \in Jitters : SweepRunLow(j)
    \/ \E j \in Jitters : SweepRunHigh(j)

(***************************************************************************)
(* api_server.py: the process-claim endpoint.  FastAPI validates the body  *)
(* against ClaimRequest before the handler runs.                           *)
(***************************************************************************)

\* the fields ClaimRequest declares with Field(...)
RequiredFields == {"claim_id", "policy_type", "amount", "description"}

\* the validation of ClaimRequest: required fields, gt=0, ge=0
ClaimRequest_valid(body) ==
    /\ RequiredFields \subseteq DOMAIN body
    /\ body.amount > 0
    /\ Get(body, "previous_claims", 0) >= 0
    /\ Get(body, "policy_duration_months", 0) >= 0

\* claim records that lack a required field or carry an amount that is not positive
MalformedClaims == {
    [claim_id |-> "BAD-1", policy_type |-> "Health", amount |-> 0,
     description |-> "Emergency surgery"],
    [claim_id |-> "BAD-2", policy_type |-> "Health", amount |-> -50000,
     description |-> "Hospital visit", previous_claims |-> 1],
    [claim_id |-> "BAD-3", policy_type |-> "Motor", amount |-> 2000000] }

\* the bodies posted to the endpoint
ApiBodies == {ClaimTable[1], ClaimTable[2]} \cup MalformedClaims

ApiTexts == {FormatClaimText(ClaimRequest_dict(c)) : c \in {ClaimTable[1], ClaimTable[2]}}

NoApi == [pc |-> "idle", body |-> EmptyDict, result |-> InitialState(EmptyDict),
          response |-> [status |-> 0]]

\* the body arrives: it fails the validation (HTTP 422) or reaches the handler
ApiReceive(body) ==
    /\ api.pc \in {"idle", "done"}
    /\ api' = IF ClaimRequest_valid(body)
              THEN [NoApi EXCEPT !.pc = "handler", !.body = body]
              ELSE [NoApi EXCEPT !.pc = "done", !.body = body,
                                 !.response = [status |-> 422]]
    /\ UNCHANGED <<confidence_threshold, channel_alias, call, parity, engine, batch,
                   use_shap, mock, sweep, pool, pii>>

\* the handler: claim.dict(), agent.process_claim, ClaimResponse, or the
\* HTTPException of the except clause
ApiProcessClaim ==
    /\ api.pc = "handler"
    /\ LET claim_data == ClaimRequest_dict(api.body)
           run == Agent_process_claim(claim_data, engine[FormatClaimText(claim_data)],
                                      confidence_threshold, channel_alias)
       IN  api' = [api EXCEPT
                !.pc = "done",
                !.result = run.state,
                !.response =
                    IF run.raised
                    THEN [status |-> 500,
                          detail |-> "Error processing claim: " \o EngineError]
                    ELSE [status |-> 200,
                          claim_id |-> run.state.claim_data.claim_id,
                          prediction |-> run.state.prediction,
                          confidence |-> run.state.confidence,
                          requires_human_review |-> run.state.requires_human_review,
                          reasoning |-> run.state.decision_reasoning,
                          top_features |->
                              Get(run.state.shap_explanation, "top_features", <<>>)]]
    /\ UNCHANGED <<confidence_threshold, channel_alias, call, parity, engine, batch,
                   use_shap, mock, sweep, pool, pii>>

ApiNext ==
    \/ \E b \in ApiBodies : ApiReceive(b)
    \/ ApiProcessClaim

\* The claim records given to process_claim of the agents: process_claim takes any
\* dict.
(***************************************************************************)
(* Two process_claim calls on one agent, their stages interleaved in any   *)
(* order.  Each call has the state dict process_claim built for it; the    *)
(* agent's attributes (classifier, confidence_threshold, workflow) are set *)
(* in __init__ and not written afterwards.                                 *)
(***************************************************************************)

Runs == {"first", "second"}

PoolClaims == {ClaimTable[1], ClaimTable[3]}

\* what classify draws in a run: the jitter of the fallback classifier, the
\* approval probability of the learned one
PoolDraws(agent) ==
    IF agent = "simple" THEN {-MaxJitter, 0, MaxJitter} ELSE QwenApprovals

NoRun == [pc |-> "idle", claim_data |-> EmptyDict, draw |-> 0, overlapped |-> FALSE,
          state |-> InitialState(EmptyDict)]

NoPool == [agent |-> "none", runs |-> [r \in Runs |-> NoRun]]

InFlight(run) == run.pc \notin {"idle", "done"}

\* mutant: the runs of an agent append to one audit trail
PoolStore_shared_messages(runs, r, pc, state) ==
    [q \in Runs |->
        IF q = r THEN [runs[q] EXCEPT !.pc = pc, !.state = state]
        ELSE [runs[q] EXCEPT !.state.messages = state.messages]]

\* state = self.<stage>(state): the stage's result is the state of its own call
PoolStore(runs, r, pc, state) ==
    [runs EXCEPT ![r].pc = pc, ![r].state = state]

\* the state a stage of the agent leaves, given the state it found
StageResult(agent, node, state, draw, threshold, alias) ==
    IF agent = "simple"
    THEN CASE node = "preprocess" -> Simple_preprocess_claim(state)
           [] node = "classify" ->
                Simple_classify_claim(state,
                                      MockClassifier_predict(state.claim_text, draw))
           [] node = "explain" -> Simple_explain_decision(state)
           [] node = "human_review" -> Simple_request_human_review(state)
           [] node = "finalize" -> Simple_finalize_decision(state)
    ELSE ChannelWrite(state, RunNode(node, state, Returns(draw), threshold), alias)

\* process_claim builds the initial state of the call
PoolProcessClaim(agent, r, claim_data) ==
    /\ pool.agent \in {"none", agent}
    /\ pool.runs[r].pc = "idle"
    /\ LET others == \E q \in Runs \ {r} : InFlight(pool.runs[q])
           initial == IF agent = "simple" THEN InitialState(claim_data)
                      ELSE ChannelInput(InitialState(claim_data))
       IN  pool' = [agent |-> agent,
                    runs |-> [q \in Runs |->
                        IF q = r
                        THEN [NoRun EXCEPT !.pc = "preprocess",
                                           !.claim_data = claim_data,
                                           !.overlapped = others,
                                           !.state = initial]
                        ELSE [pool.runs[q] EXCEPT
                                !.overlapped = @ \/ InFlight(pool.runs[q])]]]
    /\ UNCHANGED <<confidence_threshold, channel_alias, call, parity, engine, batch,
                   use_shap, mock, sweep, api, pii>>

PoolStage(r, node, next, draw) ==
    /\ pool.runs[r].pc = node
    /\ pool' = [pool EXCEPT
            !.runs = PoolStore([pool.runs EXCEPT ![r].draw = draw], r, next,
                               StageResult(pool.agent, node, pool.runs[r].state, draw,
                                           confidence_threshold, channel_alias))]
    /\ UNCHANGED <<confidence_threshold, channel_alias, call, parity, engine, batch,
                   use_shap, mock, sweep, api, pii>>

PoolPreprocess(r) == PoolStage(r, "preprocess", "classify", pool.runs[r].draw)

PoolClassify(r, draw) ==
    /\ draw \in PoolDraws(pool.agent)
    /\ PoolStage(r, "classify", "explain", draw)

PoolExplain(r) == PoolStage(r, "explain", "route", pool.runs[r].draw)

\* check_confidence picks the terminal stage of the call
PoolRoute(r) ==
    /\ pool.runs[r].pc = "route"
    /\ pool' = [pool EXCEPT !.runs[r].pc =
            IF pool.agent = "simple"
            THEN Simple_check_confidence(pool.runs[r].state, confidence_threshold)
            ELSE Agent_check_confidence_threshold(pool.runs[r].state,
                                                  confidence_threshold)]
    /\ UNCHANGED <<confidence_threshold, channel_alias, call, parity, engine, batch,
                   use_shap, mock, sweep, api, pii>>

PoolHumanReview(r) == PoolStage(r, "human_review", "done", pool.runs[r].draw)

PoolFinalize(r) == PoolStage(r, "finalize", "done", pool.runs[r].draw)

PoolNext ==
    \/ \E a \in {"simple", "graph"}, r \in Runs, c \in PoolClaims :
            PoolProcessClaim(a, r, c)
    \/ \E r \in Runs : PoolPreprocess(r)
    \/ \E r \in Runs, d \in PoolDraws("simple") \cup PoolDraws("graph") :
            PoolClassify(r, d)
    \/ \E r \in Runs : PoolExplain(r)
    \/ \E r \in Runs : PoolRoute(r)
    \/ \E r \in Runs : PoolHumanReview(r)
    \/ \E r \in Runs : PoolFinalize(r)

(***************************************************************************)
(* 01-PII-detection/transformer_detector.py: TransformerPIIDetector.       *)
(***************************************************************************)

\* s[start:end] for indices that are not negative
Slice(s, start, end) == SubSeq(s, start + 1, Min(end, Len(s)))

RECURSIVE WordsFrom(_, _)
\* the runs of non-whitespace of `text` from position i on
WordsFrom(text, i) ==
    LET keep == {k \in i..Len(text) : Char(text, k) \notin Whitespace}
    IN  IF keep = {} THEN <<>>
        ELSE LET b == CHOOSE k \in keep : \A j \in keep : k <= j
                 stop == {k \in b..Len(text) : Char(text, k) \in Whitespace}
                 e == IF stop = {} THEN Len(text)
                      ELSE (CHOOSE k \in stop : \A j \in stop : k <= j) - 1
             IN  <<SubSeq(text, b, e)>> \o WordsFrom(text, e + 1)

\* text.split()
Split(text) == WordsFrom(text, 1)

\* max_length of detect, 450 in the source, scaled to the texts of the model
max_length == 16

\* if current_chunk: chunks.append(' '.join(current_chunk))
SplitFlush(chunks, current_chunk) ==
    IF current_chunk # <<>> THEN Append(chunks, Join(current_chunk, " ")) ELSE chunks

RECURSIVE SplitLoop(_, _, _, _, _)
\* the loop of _split_text over the words left
SplitLoop(words, chunks, current_chunk, current_length, limit) ==
    IF words = <<>> THEN SplitFlush(chunks, current_chunk)
    ELSE LET word == Head(words)
             word_length == Len(word) + 1
         IN  IF current_length + word_length > limit
             THEN SplitLoop(Tail(words), SplitFlush(chunks, current_chunk),
                            <<word>>, word_length, limit)
             ELSE SplitLoop(Tail(words), chunks, Append(current_chunk, word),
                            current_length + word_length, limit)

TransformerPIIDetector_split_text(text, limit) ==
    SplitLoop(Split(text), <<>>, <<>>, 0, limit)

\* the <<start, end>> of the words of a chunk, as chunk[start:end]
WordSpans(chunk) ==
    {sp \in (0..Len(chunk)) \X (0..Len(chunk)) :
        /\ sp[1] < sp[2]
        /\ \A k \in (sp[1] + 1)..sp[2] : Char(chunk, k) \notin Whitespace
        /\ sp[1] = 0 \/ Char(chunk, sp[1]) \in Whitespace
        /\ sp[2] = Len(chunk) \/ Char(chunk, sp[2] + 1) \in Whitespace}

\* threshold=0.5 of detect and anonymize
DetectThreshold == 50

\* the scores of the pipeline's entities: one below the threshold, one above
PipelineScores == {40, 90}

Entity(entity_group, word, start, end, score) ==
    [entity_group |-> entity_group, word |-> word, start |-> start, end |-> end,
     score |-> score]

\* What self.pipeline(chunk) returns: entities of the chunk, positions counted
\* from the start of the chunk.  The model decides which; here none, or one word.
PipelineResults(chunk) ==
    {<<>>} \cup
    {<<Entity("FIRSTNAME", Slice(chunk, sp[1], sp[2]), sp[1], sp[2], score)>> :
        sp \in WordSpans(chunk), score \in PipelineScores}

\* the entities of `results` detect keeps, moved by `offset`
Shifted(results, offset, threshold) ==
    LET kept == SelectSeq(results, LAMBDA entity : entity.score >= threshold)
    IN  [k \in 1..Len(kept) |->
            [kept[k] EXCEPT !.start = @ + offset, !.end = @ + offset]]

NoPii == [pc |-> "idle", op |-> "none", model_loaded |-> FALSE, text |-> "",
          chunks |-> <<>>, index |-> 0, offset |-> 0, entities |-> <<>>,
          anonymized |-> ""]

DigitChars == {Char(Digits, d) : d \in 1..Len(Digits)}
WordChars ==
    DigitChars \cup {"_"} \cup {Char(UpperCase, j) : j \in 1..Len(UpperCase)}
        \cup {Char(LowerCase, j) : j \in 1..Len(LowerCase)}

\* is text[k - 1] a character of \w (no character before the start or after the end)
IsWordAt(text, k) == k \in 1..Len(text) /\ Char(text, k) \in WordChars

\* \b at position p: one side of the position is \w and the other is not
Boundary(text, p) == IsWordAt(text, p) # IsWordAt(text, p + 1)

\* \d{n} at position p
DigitsAt(text, p, n) ==
    \A k \in 1..n : p + k <= Len(text) /\ Char(text, p + k) \in DigitChars

\* a literal at position p
LitAt(text, p, lit) == p + Len(lit) <= Len(text) /\ Slice(text, p, p + Len(lit)) = lit

\* the end of the match of r'\b\d{3}-\d{2}-\d{4}\b' at position p, -1 if none
MatchSSN(text, p) ==
    IF /\ Boundary(text, p) /\ DigitsAt(text, p, 3) /\ LitAt(text, p + 3, "-")
       /\ DigitsAt(text, p + 4, 2) /\ LitAt(text, p + 6, "-")
       /\ DigitsAt(text, p + 7, 4) /\ Boundary(text, p + 11)
    THEN p + 11 ELSE -1

\* the end of the match of r'https?://[^\s]+' at position p, -1 if none
MatchURL(text, p) ==
    LET q == IF LitAt(text, p, "https://") THEN p + 8
             ELSE IF LitAt(text, p, "http://") THEN p + 7 ELSE -1
        stop == {k \in (q + 1)..Len(text) : Char(text, k) \in Whitespace}
        e == IF stop = {} THEN Len(text)
             ELSE (CHOOSE k \in stop : \A j \in stop : k <= j) - 1
    IN  IF q >= 0 /\ e > q THEN e ELSE -1

\* the end of the match of r'\b\d{5}(?:-\d{4})?\b' at position p, -1 if none
MatchZIPCODE(text, p) ==
    IF ~(Boundary(text, p) /\ DigitsAt(text, p, 5)) THEN -1
    ELSE IF /\ LitAt(text, p + 5, "-") /\ DigitsAt(text, p + 6, 4)
            /\ Boundary(text, p + 10)
    THEN p + 10
    ELSE IF Boundary(text, p + 5) THEN p + 5 ELSE -1

\* The patterns of _fallback_detect that can match a text without '@', without
\* a month name and without a run of four digit groups, in the order of the
\* dict; EMAIL, PHONE, CREDIT_CARD, IP_ADDRESS and DATE match nothing in such a
\* text.
patterns == <<"SSN", "URL", "ZIPCODE">>

MatchEnd(entity_type, text, p) ==
    CASE entity_type = "SSN" -> MatchSSN(text, p)
      [] entity_type = "URL" -> MatchURL(text, p)
      [] entity_type = "ZIPCODE" -> MatchZIPCODE(text, p)

RECURSIVE FindIter(_, _, _)
\* re.finditer(pattern, text) from position p on: the matches from left to
\* right, none overlapping another of the same pattern
FindIter(entity_type, text, p) ==
    IF p >= Len(text) THEN <<>>
    ELSE LET e == MatchEnd(entity_type, text, p)
         IN  IF e > p
             THEN <<Entity(entity_type, Slice(text, p, e), p, e, 100)>>
                    \o FindIter(entity_type, text, e)
             ELSE FindIter(entity_type, text, p + 1)

RECURSIVE FallbackFrom(_, _)
FallbackFrom(text, k) ==
    IF k > Len(patterns) THEN <<>>
    ELSE FindIter(patterns[k], text, 0) \o FallbackFrom(text, k + 1)

TransformerPIIDetector_fallback_detect(text) == FallbackFrom(text, 1)

\* one step of the stable sort: `entity` goes behind the entities that start at
\* or after its start
InsertByStart(sorted, entity) ==
    LET ahead == {k \in 1..Len(sorted) : sorted[k].start >= entity.start}
        n == IF ahead = {} THEN 0 ELSE CHOOSE k \in ahead : \A j \in ahead : k >= j
    IN  SubSeq(sorted, 1, n) \o <<entity>> \o SubSeq(sorted, n + 1, Len(sorted))

RECURSIVE SortByStart(_, _)
\* sorted(entities, key=lambda x: x['start'], reverse=True)
SortByStart(sorted, entities) ==
    IF entities = <<>> THEN sorted
    ELSE SortByStart(InsertByStart(sorted, Head(entities)), Tail(entities))

\* replacement = f"<{entity_type}>"  (show_type=True)
Replacement(entity) == "<" \o entity.entity_group \o ">"

RECURSIVE ReplaceSpans(_, _)
\* the loop of anonymize over the sorted entities
ReplaceSpans(anonymized_text, entities) ==
    IF entities = <<>> THEN anonymized_text
    ELSE LET entity == Head(entities)
         IN  ReplaceSpans(Slice(anonymized_text, 0, entity.start)
                            \o Replacement(entity)
                            \o SubSeq(anonymized_text, entity.end + 1,
                                      Len(anonymized_text)),
                          Tail(entities))

\* the texts given to the detector
ChunkTexts == {
    "John Smith",
    "Call John Smith at home today",
    "John  Smith",
    " Ann Lee" }
FallbackTexts == {
    "id 123-45-6789",
    "ssn 123-45-6789 zip 12345",
    "see http://a.co/12345 now",
    "http://x.io/123-45-6789 ok" }
PiiTexts == ChunkTexts \cup FallbackTexts

PiiOps == {"detect", "anonymize"}

\* what the pipeline can return on a chunk of one of the texts
AllPipelineResults ==
    UNION {PipelineResults(chunk) :
            chunk \in UNION {{TransformerPIIDetector_split_text(text, max_length)[k] :
                                k \in DOMAIN TransformerPIIDetector_split_text(text, max_length)} :
                             text \in PiiTexts}}

\* where a call goes once detect has returned
AfterDetect(op) == IF op = "anonymize" THEN "replace" ELSE "done"

\* detect, or the detect of anonymize, without a model: _fallback_detect
DetectFallback(op, text) ==
    /\ pii.pc \in {"idle", "done"}
    /\ ~pii.model_loaded
    /\ pii' = [NoPii EXCEPT !.pc = AfterDetect(op), !.op = op, !.text = text,
                            !.model_loaded = pii.model_loaded,
                            !.entities = TransformerPIIDetector_fallback_detect(text)]
    /\ UNCHANGED <<confidence_threshold, channel_alias, call, parity, engine, batch,
                   use_shap, mock, sweep, api, pool>>

\* detect with a model, up to the loop over the chunks
DetectSplit(op, text) ==
    /\ pii.pc \in {"idle", "done"}
    /\ pii.model_loaded
    /\ LET chunks == TransformerPIIDetector_split_text(text, max_length)
       IN  pii' = [NoPii EXCEPT
                !.pc = IF chunks = <<>> THEN AfterDetect(op) ELSE "chunk",
                !.op = op, !.text = text, !.model_loaded = pii.model_loaded,
                !.chunks = chunks, !.index = 1, !.offset = 0]
    /\ UNCHANGED <<confidence_threshold, channel_alias, call, parity, engine, batch,
                   use_shap, mock, sweep, api, pool>>

\* one round of the loop: the pipeline returns `results` for the chunk
DetectChunk(results) ==
    /\ pii.pc = "chunk"
    /\ results \in PipelineResults(pii.chunks[pii.index])
    /\ pii' = [pii EXCEPT
            !.pc = IF pii.index = Len(pii.chunks) THEN AfterDetect(pii.op) ELSE "chunk",
            !.entities = @ \o Shifted(results, pii.offset, DetectThreshold),
            !.offset = @ + Len(pii.chunks[pii.index]),
            !.index = @ + 1]
    /\ UNCHANGED <<confidence_threshold, channel_alias, call, parity, engine, batch,
                   use_shap, mock, sweep, api, pool>>

\* one round of the loop: the pipeline raises, and the loop goes on
DetectChunkRaises ==
    /\ pii.pc = "chunk"
    /\ pii' = [pii EXCEPT
            !.pc = IF pii.index = Len(pii.chunks) THEN AfterDetect(pii.op) ELSE "chunk",
            !.index = @ + 1]
    /\ UNCHANGED <<confidence_threshold, channel_alias, call, parity, engine, batch,
                   use_shap, mock, sweep, api, pool>>

\* anonymize, once detect has returned
AnonymizeReplace ==
    /\ pii.pc = "replace"
    /\ LET entities == SortByStart(<<>>, pii.entities)
       IN  pii' = [pii EXCEPT !.pc = "done", !.entities = entities,
                              !.anonymized = ReplaceSpans(pii.text, entities)]
    /\ UNCHANGED <<confidence_threshold, channel_alias, call, parity, engine, batch,
                   use_shap, mock, sweep, api, pool>>

PiiNext ==
    \/ \E op \in PiiOps, text \in PiiTexts : DetectFallback(op, text)
    \/ \E op \in PiiOps, text \in PiiTexts : DetectSplit(op, text)
    \/ \E results \in AllPipelineResults : DetectChunk(results)
    \/ DetectChunkRaises
    \/ AnonymizeReplace

Submitted == Claims \cup ManyKeywordClaims \cup MalformedClaims \cup ScenarioClaims

Init ==
    /\ confidence_threshold \in Thresholds
    /\ channel_alias \in BOOLEAN
    /\ call = NoCall
    /\ parity = NoParity
    /\ engine = EmptyDict
    /\ batch = NoBatch
    /\ use_shap \in BOOLEAN
    /\ mock = NoMock
    /\ sweep = NoSweep
    /\ api = NoApi
    /\ pool = NoPool
    /\ pii = NoPii

Next ==
    \/ \E c \in Submitted : SimpleProcessClaim(c)
    \/ SimplePreprocess
    \/ \E j \in Jitters : SimpleClassify(j)
    \/ SimpleExplain
    \/ SimpleRoute
    \/ SimpleHumanReview
    \/ SimpleFinalize
    \/ \E c \in Submitted : GraphProcessClaim(c)
    \/ GraphPreprocess
    \/ \E p \in QwenApprovals : GraphClassify(p)
    \/ GraphClassifyRaises
    \/ GraphExplain
    \/ \E o \in ShapOutcomes : GraphExplainShap(o)
    \/ GraphRoute
    \/ GraphHumanReview
    \/ GraphFinalize

Spec == Init /\ [][Next]_vars

\* the graph agent of the comparison is the one create_agent makes by default
ParityInit == Init /\ ~use_shap

ParitySpec == ParityInit /\ [][ParityNext]_vars

BatchInit ==
    /\ confidence_threshold = ApiThreshold
    /\ channel_alias \in BOOLEAN
    /\ call = NoCall
    /\ parity = NoParity
    /\ engine \in [BatchTexts -> BatchOutcomes]
    /\ batch = NoBatch
    /\ use_shap = FALSE
    /\ mock = NoMock
    /\ sweep = NoSweep
    /\ api = NoApi
    /\ pool = NoPool
    /\ pii = NoPii

BatchSpec == BatchInit /\ [][BatchNext]_vars

\* no agent, endpoint or engine at work
StandaloneInit ==
    /\ confidence_threshold = ApiThreshold
    /\ channel_alias = FALSE
    /\ call = NoCall
    /\ parity = NoParity
    /\ engine = EmptyDict
    /\ batch = NoBatch
    /\ use_shap = FALSE
    /\ mock = NoMock
    /\ sweep = NoSweep
    /\ api = NoApi
    /\ pool = NoPool
    /\ pii = NoPii

\* the classifier and the explainers on their own
ClassifierSpec == StandaloneInit /\ [][MockNext]_vars

\* the two agents of test_confidence_threshold
SweepSpec == StandaloneInit /\ [][SweepNext]_vars

\* the process-claim endpoint, the agent being the one startup made
ApiInit ==
    /\ confidence_threshold = ApiThreshold
    /\ channel_alias \in BOOLEAN
    /\ call = NoCall
    /\ parity = NoParity
    /\ engine \in [ApiTexts -> BatchOutcomes]
    /\ batch = NoBatch
    /\ use_shap = FALSE
    /\ mock = NoMock
    /\ sweep = NoSweep
    /\ api = NoApi
    /\ pool = NoPool
    /\ pii = NoPii

ApiSpec == ApiInit /\ [][ApiNext]_vars

\* two calls on the agent startup made
PoolInit ==
    /\ confidence_threshold = ApiThreshold
    /\ channel_alias \in BOOLEAN
    /\ call = NoCall
    /\ parity = NoParity
    /\ engine = EmptyDict
    /\ batch = NoBatch
    /\ use_shap = FALSE
    /\ mock = NoMock
    /\ sweep = NoSweep
    /\ api = NoApi
    /\ pool = NoPool
    /\ pii = NoPii

PoolSpec == PoolInit /\ [][PoolNext]_vars

\* the detector, its model loaded by __init__ or not
PiiInit ==
    /\ confidence_threshold = ApiThreshold
    /\ channel_alias = FALSE
    /\ call = NoCall
    /\ parity = NoParity
    /\ engine = EmptyDict
    /\ batch = NoBatch
    /\ use_shap = FALSE
    /\ mock = NoMock
    /\ sweep = NoSweep
    /\ api = NoApi
    /\ pool = NoPool
    /\ \E loaded \in BOOLEAN : pii = [NoPii EXCEPT !.model_loaded = loaded]

PiiSpec == PiiInit /\ [][PiiNext]_vars

(***************************************************************************)
(* Properties.                                                             *)
(***************************************************************************)

Completed == call.pc = "done"
TerminalStages == {"human_review", "finalize"}
StageOrder == <<"preprocess", "classify", "explain", "route">>

\* C1: a completed process_claim run, on either agent, returns
\* requires_human_review = True exactly when its confidence is strictly below
\* the configured threshold; a confidence equal to the threshold is finalized.
C1_ReviewIffBelowThreshold ==
    Completed =>
        /\ call.state.requires_human_review
              <=> (call.state.confidence < confidence_threshold)
        /\ call.state.confidence = confidence_threshold
              => call.trace[Len(call.trace)] = "finalize"

C1_Witness ==
    /\ Completed
    /\ call.state.confidence = confidence_threshold
    /\ ~call.state.requires_human_review

\* C2: from the routing point a run goes to human_review when confidence <
\* threshold and to finalize otherwise; a completed run has executed exactly one
\* of the two, as its last stage, and no stage follows a terminal stage.
C2_ExactlyOneTerminal ==
    /\ call.pc \in TerminalStages =>
          (call.pc = "human_review" <=> call.state.confidence < confidence_threshold)
    /\ \A i \in 1..Len(call.trace) :
          call.trace[i] \in TerminalStages => i = Len(call.trace)
    /\ Completed =>
          /\ Cardinality({i \in 1..Len(call.trace) : call.trace[i] \in TerminalStages}) = 1
          /\ call.trace[Len(call.trace) - 1] = "route"
          /\ call.trace[Len(call.trace)] = "human_review"
                <=> call.state.confidence < confidence_threshold

C2_Witness ==
    /\ Completed
    /\ call.agent = "graph"
    /\ call.trace[Len(call.trace)] = "human_review"

\* C3: a run that ends in human_review returns the base label followed by
\* " - PENDING HUMAN REVIEW" and requires_human_review = True; a run that ends in
\* finalize returns the bare base label and requires_human_review = False.
C3_QualifierOnReview ==
    Completed =>
        LET base == IF call.probs[2] > 50 THEN "APPROVED" ELSE "REJECTED"
        IN  IF call.trace[Len(call.trace)] = "human_review"
            THEN /\ call.state.prediction = base \o " - PENDING HUMAN REVIEW"
                 /\ call.state.requires_human_review
            ELSE /\ call.state.prediction = base
                 /\ ~call.state.requires_human_review

C3_Witness ==
    /\ Completed
    /\ call.state.prediction = "APPROVED - PENDING HUMAN REVIEW"
    /\ call.state.requires_human_review

\* a run that classify has acted on and no terminal stage yet
Classified ==
    /\ Len(call.trace) >= 2
    /\ call.trace[2] = "classify"
    /\ ~Completed

\* C4: classify sets the label to APPROVED exactly when the approval probability
\* is strictly above 0.5, else to REJECTED, and the confidence to the larger of
\* the two class probabilities.
C4_LabelAndConfidence ==
    Classified =>
        /\ call.state.prediction \in {"APPROVED", "REJECTED"}
        /\ call.state.prediction = "APPROVED" <=> call.probs[2] > 50
        /\ call.state.confidence \in {call.probs[1], call.probs[2]}
        /\ call.state.confidence >= call.probs[1]
        /\ call.state.confidence >= call.probs[2]

C4_Witness ==
    /\ Classified
    /\ call.probs[2] = 50
    /\ call.state.prediction = "REJECTED"

\* C5: the confidence of the record is within [0, 1] at every point of a run,
\* the initial state (0.0) included.
C5_ConfidenceInUnitInterval ==
    /\ call.state.confidence >= 0
    /\ call.state.confidence <= 100
    /\ (call.pc = "preprocess" /\ call.trace = <<>>) => call.state.confidence = 0

C5_Witness ==
    /\ Completed
    /\ call.agent = "simple"
    /\ call.state.confidence = 90

\* C6: the stages run in the order preprocess, classify, explain, route and then
\* one of finalize / human_review; classify starts with claim_text set, explain
\* with prediction and confidence set, routing with the explanation made.
C6_StageOrder ==
    /\ Len(call.trace) <= 5
    /\ \A i \in 1..Len(call.trace) :
          IF i <= 4 THEN call.trace[i] = StageOrder[i]
          ELSE call.trace[i] \in TerminalStages
    /\ call.agent # "none" =>
          /\ call.pc = "classify" => call.state.claim_text # ""
          /\ call.pc = "explain" =>
                call.state.prediction # "" /\ call.state.confidence > 0
          /\ call.pc = "route" =>
                /\ call.state.decision_reasoning # ""
                /\ "top_features" \in DOMAIN call.state.shap_explanation
          /\ Completed => Len(call.trace) = 5

C6_Witness ==
    /\ Completed
    /\ call.agent = "graph"
    /\ call.trace = <<"preprocess", "classify", "explain", "route", "finalize">>

\* one step of a run, as the audit trail sees it: a stage other than the routing
\* appends one entry (role and content) to the trail it found; nothing else
\* changes the trail of a run
AuditStep ==
    LET before == call.state.messages
        after == call'.state.messages
    IN  IF call'.trace = <<>> THEN after = <<>>
        ELSE IF Len(call'.trace) = Len(call.trace) + 1
                    /\ call'.trace[Len(call'.trace)] # "route"
        THEN /\ Len(after) = Len(before) + 1
             /\ SubSeq(after, 1, Len(before)) = before
             /\ DOMAIN after[Len(after)] = {"role", "content"}
        ELSE after = before

\* C7: every executed stage appends exactly one entry to messages, and no stage
\* removes, duplicates or reorders entries, in both agents.
C7_AuditTrailAppendOnly == [][AuditStep]_vars

\* the fields of the decision record that the two agents' records are compared on
RecordFields(state) ==
    <<state.claim_text, state.prediction, state.confidence,
      state.requires_human_review, state.decision_reasoning,
      state.shap_explanation.top_features, state.messages>>

\* C8: on the same claim, threshold and classifier / explainer outputs the two
\* agents return the same decision record, audit trail included.
C8_SameDecisionRecord ==
    (/\ parity.pc = "done"
     /\ parity.simple.shap_explanation.top_features
            = parity.graph.shap_explanation.top_features)
        => RecordFields(parity.simple) = RecordFields(parity.graph)

\* the decision the endpoint reports for an approval probability p
ExpectedDecision(claim, p) ==
    LET conf == IF p > 100 - p THEN p ELSE 100 - p
        base == IF p > 50 THEN "APPROVED" ELSE "REJECTED"
    IN  [claim_id |-> claim.claim_id,
         prediction |-> IF conf < 70 THEN base \o " - PENDING HUMAN REVIEW" ELSE base,
         confidence |-> conf,
         requires_human_review |-> conf < 70]

EngineOn(claim) == engine[FormatClaimText(ClaimRequest_dict(claim))]

\* slot i of `slots` is what the batch owes claim i: an error record with the
\* claim's id if the engine raised on it, the claim's own decision if not
SlotFits(slots, i) ==
    IF EngineOn(batch.claims[i]).raises
    THEN /\ DOMAIN slots[i] = {"claim_id", "error"}
         /\ slots[i].claim_id = batch.claims[i].claim_id
    ELSE slots[i] = ExpectedDecision(batch.claims[i], EngineOn(batch.claims[i]).p)

\* C9: a batch within the cap returns one slot per claim, in input order: an
\* error record with the claim's id where the claim's processing raised, the
\* claim's own decision elsewhere; claims after a failing one are processed.
C9_BatchIsolatesFailures ==
    /\ batch.calls = Len(batch.results)
    /\ Len(batch.results) <= Len(batch.claims)
    /\ Len(batch.results) > 0 => SlotFits(batch.results, Len(batch.results))
    /\ (batch.pc = "done" /\ Len(batch.claims) <= 100) =>
          /\ batch.response.status = 200
          /\ batch.calls = Len(batch.claims)
          /\ Len(batch.response.results) = Len(batch.claims)
          /\ \A i \in 1..Len(batch.claims) : SlotFits(batch.response.results, i)

C9_Witness ==
    /\ batch.pc = "done"
    /\ Len(batch.claims) = 5
    /\ \A i \in 1..5 : ("error" \in DOMAIN batch.response.results[i]) <=> (i = 3)

\* C10: a batch of more than 100 claims fails as a whole with the batch-size
\* error, no claim processed and no result list returned; a batch of exactly 100
\* is accepted.
C10_OversizeRejectedWhole ==
    /\ Len(batch.claims) > 100 =>
          /\ batch.calls = 0
          /\ batch.results = <<>>
          /\ batch.pc = "done"
          /\ batch.response.status = 400
          /\ "results" \notin DOMAIN batch.response
    /\ (Len(batch.claims) = 100 /\ batch.pc = "done") =>
          /\ batch.response.status = 200
          /\ Len(batch.response.results) = 100
          /\ batch.calls = 100

C10_Witness ==
    /\ batch.pc = "done"
    /\ Len(batch.claims) = 101
    /\ batch.response.status = 400

\* C11: two runs of MockClassifier.predict and MockClassifier.get_explanation on
\* the same text return the same probabilities, hence the same label and
\* confidence, and the same explanation.
C11_RerunsAgree ==
    \A i, j \in 1..Len(mock.runs) :
        /\ mock.runs[i].probs = mock.runs[j].probs
        /\ Label(mock.runs[i].probs) = Label(mock.runs[j].probs)
        /\ mock.runs[i].explanation = mock.runs[j].explanation

\* C12: whatever the text and the jitter, predict returns <<reject, approve>>
\* with reject + approve = 1 and 0.1 <= approve <= 0.9.
C12_ProbabilityVectorClipped ==
    \A i \in 1..Len(mock.runs) :
        LET probs == mock.runs[i].probs
        IN  /\ Len(probs) = 2
            /\ probs[1] + probs[2] = 100
            /\ probs[2] >= 10
            /\ probs[2] <= 90

\* a run whose score was at the upper clip before a positive jitter was added
C12_Witness ==
    /\ Len(mock.runs) >= 1
    /\ mock.text = "Diagnosis confirmed at hospital, necessary"
    /\ mock.runs[1].jitter = MaxJitter
    /\ mock.runs[1].probs = <<10, 90>>

\* C13: of two runs with the same confidence under thresholds t1 <= t2, the run
\* under t2 requires human review whenever the run under t1 does.
C13_ReviewMonotoneInThreshold ==
    (/\ sweep.pc = "done"
     /\ sweep.low.confidence = sweep.high.confidence
     /\ sweep.low.requires_human_review)
        => sweep.high.requires_human_review

C13_Witness ==
    /\ sweep.pc = "done"
    /\ sweep.low_threshold < sweep.high_threshold
    /\ sweep.low.confidence = sweep.high.confidence
    /\ sweep.low.requires_human_review
    /\ sweep.high.requires_human_review

\* the explanations made of mock.text: those of MockClassifier's runs and the one
\* of get_simple_explanation
Explanations ==
    {mock.runs[i].explanation : i \in 1..Len(mock.runs)}
        \cup {mock.rule_based[i] : i \in 1..Len(mock.rule_based)}

\* where `word` first occurs in `text`, case ignored
FirstOccurrence(text, word) ==
    LET text_lower == Lower(text)
        at == {i \in 1..(Len(text) - Len(word) + 1) :
                    SubSeq(text_lower, i, i + Len(word) - 1) = word}
    IN  CHOOSE i \in at : \A j \in at : i <= j

\* C14: top_features is in descending order of absolute contribution, and two
\* features of equal absolute contribution are in the order of their first
\* occurrence in the text.
C14_SortedTiesInTextOrder ==
    \A e \in Explanations :
        \A i, j \in 1..Len(e.top_features) :
            i < j =>
                LET f == e.top_features[i]
                    g == e.top_features[j]
                IN  /\ Abs(f.shap_value) >= Abs(g.shap_value)
                    /\ Abs(f.shap_value) = Abs(g.shap_value) =>
                          FirstOccurrence(mock.text, f.feature)
                              < FirstOccurrence(mock.text, g.feature)

\* the half of C14 about the absolute contributions alone
SortedByAbsoluteContribution ==
    \A e \in Explanations :
        \A i, j \in 1..Len(e.top_features) :
            i < j => Abs(e.top_features[i].shap_value) >= Abs(e.top_features[j].shap_value)

\* explanation e holds one feature for each keyword of `table` that occurs in the
\* lower-cased mock.text, with the table's weight, and no other feature
EmitsMatchedKeywords(e, table) ==
    LET matched == {k \in 1..Len(table) : Contains(Lower(mock.text), table[k][1])}
    IN  /\ Len(e.top_features) = Cardinality(matched)
        /\ \A k \in matched :
              \E i \in 1..Len(e.top_features) :
                  /\ e.top_features[i].feature = table[k][1]
                  /\ e.top_features[i].shap_value = table[k][2]

\* C16: each explainer emits exactly one feature per keyword of its table found
\* in the text; a feature's score is the weight MockClassifier.predict adds for
\* that keyword, and its impact is 'positive' exactly when the score is > 0.
C16_OneFeaturePerKeywordSharedWeight ==
    /\ \A i \in 1..Len(mock.runs) :
          EmitsMatchedKeywords(mock.runs[i].explanation, MockClassifier_keywords)
    /\ \A i \in 1..Len(mock.rule_based) :
          EmitsMatchedKeywords(mock.rule_based[i], QwenClaimClassifier_keywords)
    /\ \A e \in Explanations :
          \A i \in 1..Len(e.top_features) :
              LET f == e.top_features[i]
              IN  /\ f.shap_value = KeywordScore(MockClassifier_keywords, f.feature, 0)
                  /\ f.impact = "positive" <=> f.shap_value > 0

\* C16 without the weights being those of the classifier: each explainer against
\* its own table
OneFeaturePerKeywordOwnTable ==
    /\ \A i \in 1..Len(mock.runs) :
          EmitsMatchedKeywords(mock.runs[i].explanation, MockClassifier_keywords)
    /\ \A i \in 1..Len(mock.rule_based) :
          EmitsMatchedKeywords(mock.rule_based[i], QwenClaimClassifier_keywords)
    /\ \A e \in Explanations :
          \A i \in 1..Len(e.top_features) :
              e.top_features[i].impact = "positive" <=> e.top_features[i].shap_value > 0

\* the first position of `piece` in `text`
PositionIn(text, piece) ==
    LET at == {i \in 1..(Len(text) - Len(piece) + 1) :
                    SubSeq(text, i, i + Len(piece) - 1) = piece}
    IN  CHOOSE i \in at : \A j \in at : i <= j

\* a run that explain has acted on
Explained == Len(call.trace) >= 3 /\ call.trace[3] = "explain"

\* the features the explainer of the run produced are the ones stored
StoresWhatExplainerProduced ==
    LET stored == call.state.shap_explanation.top_features
        text == call.state.claim_text
    IN  IF call.agent = "simple"
        THEN stored = MockClassifier_get_explanation(text).top_features
        ELSE IF use_shap /\ ~call.shap_raised
        THEN \E e \in ShapExplanations : stored = e.top_features
        ELSE stored = QwenClaimClassifier_get_simple_explanation(text).top_features

\* C15: the stored explanation keeps all n features the explainer produced; the
\* reasoning text has one line for each of the first min(5, n) of them, in the
\* stored order, and none for the others.
C15_TruncationOnlyInReasoning ==
    Explained =>
        LET stored == call.state.shap_explanation.top_features
            text == call.state.decision_reasoning
            n == Len(stored)
            shown == IF n < 5 THEN n ELSE 5
        IN  /\ StoresWhatExplainerProduced
            /\ Cardinality({i \in 1..Len(text) : Char(text, i) = "\n"}) = 3 + shown
            /\ \A i \in 1..n :
                  Contains(text, "'" \o stored[i].feature \o "'") <=> i <= shown
            /\ \A i \in 1..(shown - 1) :
                  PositionIn(text, "'" \o stored[i].feature \o "'")
                      < PositionIn(text, "'" \o stored[i + 1].feature \o "'")

C15_Witness ==
    /\ Completed
    /\ call.agent = "graph"
    /\ ~use_shap
    /\ Len(call.state.shap_explanation.top_features) = 6

\* C17: once get_shap_explanation has raised in a run of an agent with
\* use_shap = True, the run has not failed: the fallback was logged, the rule-based
\* explanation is stored, and the run is at the routing or beyond, ending in a
\* terminal stage.
C17_ShapFailureFallsBack ==
    call.shap_raised =>
        /\ use_shap
        /\ call.pc \in {"route", "human_review", "finalize", "done"}
        /\ call.log = <<"SHAP failed, using simple explanation: " \o ShapError>>
        /\ call.state.shap_explanation
              = QwenClaimClassifier_get_simple_explanation(call.state.claim_text)
        /\ call.state.decision_reasoning # ""
        /\ Completed => call.trace[Len(call.trace)] \in TerminalStages

C17_Witness ==
    /\ Completed
    /\ call.shap_raised
    /\ call.state.shap_explanation.method = "rule_based"
    /\ call.log # <<>>

\* C19: no stage runs and no record is returned for a claim record that lacks a
\* required field or whose amount is not positive.
C19_MalformedRejectedBeforePipeline ==
    (call.agent # "none" /\ ~ClaimRequest_valid(call.state.claim_data))
        => call.trace = <<>> /\ ~Completed

\* the body carries no medical reports: the field is absent, or it is None
NoMedicalReports(body) ==
    Get(body, "medical_reports", PyNone) = PyNone

\* C18: the claim text made for a request without medical reports has the line
\* 'Medical Reports: None provided'.
C18_MissingOptionalRendersDefault ==
    (api.result.claim_text # "" /\ NoMedicalReports(api.body))
        => Contains(api.result.claim_text, "Medical Reports: None provided\n")

\* did the classification engine raise on the request being handled
ApiEngineRaised ==
    /\ api.pc = "done"
    /\ ClaimRequest_valid(api.body)
    /\ engine[FormatClaimText(ClaimRequest_dict(api.body))].raises

\* C20: a request whose processing raised is answered with an error, not with a
\* decision, and the error's text holds the claim's identifier.
C20_FailureCarriesClaimId ==
    ApiEngineRaised =>
        /\ api.response.status = 500
        /\ "prediction" \notin DOMAIN api.response
        /\ Contains(api.response.detail, api.body.claim_id)

\* C20 without the identifier: the failure is an error and not a decision
FailureIsAnError ==
    ApiEngineRaised =>
        /\ api.response.status = 500
        /\ "prediction" \notin DOMAIN api.response

\* a run of the fallback classifier's agent on `claim` that classify has acted on
SimpleClassifiedOn(claim) ==
    /\ call.agent = "simple"
    /\ call.state.claim_data = claim
    /\ Len(call.trace) >= 2

\* C21: on the emergency scenario the fallback classifier approves (approval
\* probability > 0.5) whatever the jitter, and the first feature of the
\* explanation is 'emergency' or 'surgery'.
C21_EmergencyScenarioApproved ==
    SimpleClassifiedOn(EmergencyScenario) =>
        /\ call.probs[2] > 50
        /\ SubSeq(call.state.prediction, 1, 8) = "APPROVED"
        /\ Explained =>
              call.state.shap_explanation.top_features[1].feature
                  \in {"emergency", "surgery"}

C21_Witness ==
    /\ SimpleClassifiedOn(EmergencyScenario)
    /\ Completed
    /\ call.probs[2] = 90 - MaxJitter
    /\ call.state.shap_explanation.top_features[1].feature = "emergency"

\* C22: on the cosmetic scenario the fallback classifier rejects (approval
\* probability < 0.5) whatever the jitter.
C22_CosmeticScenarioRejected ==
    SimpleClassifiedOn(CosmeticScenario) =>
        /\ call.probs[2] < 50
        /\ SubSeq(call.state.prediction, 1, 8) = "REJECTED"

C22_Witness ==
    /\ SimpleClassifiedOn(CosmeticScenario)
    /\ Completed
    /\ call.probs[2] = 10 + MaxJitter

\* the score predict has for `text` before the jitter is added
ScoreBeforeJitter(text) ==
    Clip(AmountAdjustment(text, KeywordScore(MockClassifier_keywords, Lower(text), 50)))

\* C23: with threshold 0.7, a run of the fallback classifier's agent on a claim
\* whose score before the jitter is at the clip (0.9 or 0.1) has a confidence of
\* at least 0.85 and is finalized without human review, whatever the jitter.
C23_SaturatedScoreIsFinalized ==
    (/\ call.agent = "simple"
     /\ confidence_threshold = 70
     /\ Len(call.trace) >= 2
     /\ ScoreBeforeJitter(call.state.claim_text) \in {10, 90})
        => /\ call.state.confidence >= 85
           /\ ~call.state.requires_human_review
           /\ Completed => call.trace[Len(call.trace)] = "finalize"

C23_Witness ==
    /\ call.agent = "simple"
    /\ confidence_threshold = 70
    /\ Completed
    /\ ScoreBeforeJitter(call.state.claim_text) = 10
    /\ call.probs = <<85, 15>>
    /\ ~call.state.requires_human_review

\* C27: the confidence the fallback classifier's agent records is within
\* [0.5, 0.9]; so the routing sends its runs to finalize under every threshold
\* <= 0.5 and to human review under every threshold > 0.9.
C27_FallbackConfidenceRange ==
    (call.agent = "simple" /\ Len(call.trace) >= 2) =>
        /\ call.state.confidence >= 50
        /\ call.state.confidence <= 90
        /\ \A t \in 0..50 : Simple_check_confidence(call.state, t) = "finalize"
        /\ \A t \in 91..100 : Simple_check_confidence(call.state, t) = "human_review"
        /\ (Completed /\ confidence_threshold <= 50) => ~call.state.requires_human_review

C27_Witness ==
    /\ call.agent = "simple"
    /\ Completed
    /\ confidence_threshold = 50
    /\ call.state.confidence = 50
    /\ ~call.state.requires_human_review

\* the content of the audit entry classify appends, by agent
ClassifyContent(agent, probs) ==
    (IF agent = "simple" THEN "[OK] Classification: " ELSE "Classification: ")
        \o Label(probs) \o " (confidence: " \o FormatPercent(Confidence(probs)) \o ")"

\* the label the first line of the reasoning text shows
ReasoningShows(reasoning, label) ==
    /\ Len(reasoning) > Len("Decision: " \o label)
    /\ SubSeq(reasoning, 1, Len("Decision: " \o label) + 1) = "Decision: " \o label \o "\n"

\* C28: in a completed run the reasoning text and the audit entry of classify
\* show the label classify produced; a run sent to review returns that label with
\* the qualifier appended, so the returned label equals the one shown exactly on
\* the finalized runs.
C28_ReasoningShowsBaseLabel ==
    Completed =>
        /\ ReasoningShows(call.state.decision_reasoning, Label(call.probs))
        /\ \E i \in DOMAIN call.state.messages :
               call.state.messages[i] =
                   Message("assistant", ClassifyContent(call.agent, call.probs))
        /\ call.state.requires_human_review =>
               call.state.prediction = Label(call.probs) \o PendingSuffix
        /\ ~call.state.requires_human_review =>
               call.state.prediction = Label(call.probs)
        /\ ReasoningShows(call.state.decision_reasoning, call.state.prediction)
               <=> ~call.state.requires_human_review

C28_Witness ==
    /\ Completed
    /\ call.state.requires_human_review
    /\ call.state.prediction = "REJECTED" \o PendingSuffix
    /\ ReasoningShows(call.state.decision_reasoning, "REJECTED")
    /\ ~ReasoningShows(call.state.decision_reasoning, call.state.prediction)

\* a stage of the run in progress acts after classify has
StepAfterClassify ==
    /\ Running
    /\ Len(call.trace) >= 2
    /\ call.trace[2] = "classify"
    /\ Len(call'.trace) = Len(call.trace) + 1

\* C24 as stated: once classify has set the label and the confidence no later
\* stage changes either of them, and no stage changes claim_data.
C24_PredictionNeverMutated ==
    [][/\ Running => call'.state.claim_data = call.state.claim_data
       /\ StepAfterClassify =>
            /\ call'.state.prediction = call.state.prediction
            /\ call'.state.confidence = call.state.confidence]_vars

\* C24: no stage changes claim_data, and once classify has run no later stage
\* changes the confidence; the label is changed by one later stage only,
\* human_review, which appends the qualifier to it.
C24_OnlyReviewQualifiesLabel ==
    [][/\ Running => call'.state.claim_data = call.state.claim_data
       /\ StepAfterClassify =>
            /\ call'.state.confidence = call.state.confidence
            /\ IF call'.trace[Len(call'.trace)] = "human_review"
               THEN call'.state.prediction = call.state.prediction \o PendingSuffix
               ELSE call'.state.prediction = call.state.prediction]_vars

C24_Witness ==
    /\ Completed
    /\ call.trace[Len(call.trace)] = "human_review"
    /\ call.state.claim_data \in Claims
    /\ call.state.prediction = "APPROVED" \o PendingSuffix
    /\ call.state.confidence = Confidence(call.probs)
    /\ call.state.confidence < confidence_threshold

\* the probability vectors a classify stage can be handed: what the fallback
\* classifier returns on the texts of the claims, under every jitter; any
\* softmax vector from the learned classifier
MockOutcomes ==
    {MockClassifier_predict(FormatClaimText(c), j) :
        c \in Claims \cup ManyKeywordClaims \cup ScenarioClaims, j \in Jitters}
QwenOutcomes == {<<100 - p, p>> : p \in 0..100}
Outcomes(agent) == IF agent = "simple" THEN MockOutcomes ELSE QwenOutcomes

\* where the router sends a run classified with `probs` under `threshold`
RouteOf(agent, probs, threshold) ==
    LET state == [confidence |-> Confidence(probs)]
    IN  IF agent = "simple" THEN Simple_check_confidence(state, threshold)
        ELSE Agent_check_confidence_threshold(state, threshold)

\* the thresholds in [0, 1] under which some outcome of the agent's classifier
\* leads to the terminal stage
ThresholdsReaching(agent, terminal) ==
    {t \in 0..100 : \E probs \in Outcomes(agent) : RouteOf(agent, probs, t) = terminal}
SimpleFinalizable == ThresholdsReaching("simple", "finalize")
SimpleReviewable == ThresholdsReaching("simple", "human_review")
GraphFinalizable == ThresholdsReaching("graph", "finalize")
GraphReviewable == ThresholdsReaching("graph", "human_review")

\* C26 as stated: under whatever threshold the agent is configured with, a
\* classified run has an outcome that finalizes it and one that sends it to
\* review.
C26_BothTerminalsReachable ==
    Classified =>
        /\ \E probs \in Outcomes(call.agent) :
               RouteOf(call.agent, probs, confidence_threshold) = "finalize"
        /\ \E probs \in Outcomes(call.agent) :
               RouteOf(call.agent, probs, confidence_threshold) = "human_review"

\* C26: the confidence is the larger class probability, so it is never below
\* 0.5: review is reachable exactly under the thresholds above 0.5, and a run
\* under a threshold of 0.5 or less is always finalized.  Finalize is reachable
\* under every threshold with the learned classifier and under the thresholds up
\* to 0.9 with the fallback classifier.
C26_BothTerminalsAboveHalf ==
    /\ SimpleReviewable = 51..100
    /\ GraphReviewable = 51..100
    /\ SimpleFinalizable = 0..90
    /\ GraphFinalizable = 0..100
    /\ Classified =>
          (confidence_threshold \in
              (IF call.agent = "simple" THEN SimpleReviewable ELSE GraphReviewable))
            <=> confidence_threshold > 50
    /\ (Completed /\ confidence_threshold <= 50) => ~call.state.requires_human_review

C26_Witness ==
    /\ Completed
    /\ confidence_threshold = 70
    /\ call.agent = "graph"
    /\ call.state.requires_human_review
    /\ call.state.confidence = 60
    /\ \E probs \in Outcomes(call.agent) :
           RouteOf(call.agent, probs, confidence_threshold) = "finalize"

\* the record process_claim returns when the call is the only one on the agent
AloneRecord(agent, claim_data, draw, threshold, alias) ==
    IF agent = "simple" THEN Simple_process_claim(claim_data, draw, threshold)
    ELSE Agent_process_claim(claim_data, Returns(draw), threshold, alias).state

C29_EntityPositionsInOriginalText ==
    pii.model_loaded =>
        \A k \in DOMAIN pii.entities :
            Slice(pii.text, pii.entities[k].start, pii.entities[k].end)
                = pii.entities[k].word

\* the type tags anonymize writes
Tags == {"<" \o patterns[k] \o ">" : k \in DOMAIN patterns} \cup {"<FIRSTNAME>"}

RECURSIVE Squeeze(_)
\* s with every run of '#' made one '#'
Squeeze(s) ==
    IF Len(s) <= 1 THEN s
    ELSE IF Char(s, 1) = "#" /\ Char(s, 2) = "#" THEN Squeeze(Tail(s))
    ELSE Char(s, 1) \o Squeeze(Tail(s))

RECURSIVE TagsMarked(_)
\* s with every type tag made '#'
TagsMarked(s) ==
    IF Len(s) = 0 THEN ""
    ELSE LET here == {t \in Tags : Len(t) <= Len(s) /\ SubSeq(s, 1, Len(t)) = t}
         IN  IF here # {}
             THEN "#" \o TagsMarked(SubSeq(s, Len(CHOOSE t \in here : TRUE) + 1, Len(s)))
             ELSE Char(s, 1) \o TagsMarked(Tail(s))

\* text with every character inside a span of `entities` made '#'
SpansMarked(text, entities) ==
    LET covered(k) == \E n \in DOMAIN entities :
                          entities[n].start < k /\ k <= entities[n].end
        mark[k \in 0..Len(text)] ==
            IF k = 0 THEN ""
            ELSE mark[k - 1] \o (IF covered(k) THEN "#" ELSE Char(text, k))
    IN  mark[Len(text)]

\* C30: what anonymize returns on the entities of the regex fallback is the text
\* with every stretch of detected spans replaced by type tags and every other
\* character left as it was.
C30_AnonymizeKeepsOutsideSpans ==
    (pii.pc = "done" /\ pii.op = "anonymize" /\ ~pii.model_loaded) =>
        Squeeze(TagsMarked(pii.anonymized)) = Squeeze(SpansMarked(pii.text, pii.entities))

====
